---- MODULE Spec2Model ----
(***************************************************************************)
(* Verification-code lifecycle and verification flows of the ride-hailing  *)
(* backend: the rider controller (user.controller) and the driver          *)
(* controller (driver.controller), each with its own in-memory otpCache,   *)
(* cleanup timers, request handlers interleaved at their awaits, and the   *)
(* identity tables reached through prisma.                                 *)
(*                                                                         *)
(* Time is the wall clock Date.now() in milliseconds.                      *)
(***************************************************************************)
EXTENDS Bags, FiniteSets, Integers, Sequences, TLC

\* ------------------------------------------------------------------------
\* Bounds of the model
\* ------------------------------------------------------------------------
\* the clock advances in steps of TickMs milliseconds
TickMs == 150000
\* number of clock steps explored
MaxTicks == 3
\* number of requests received in one behaviour, and in progress at the same
\* time, when all handlers are explored (Spec)
MaxRequests == 2
MaxPending == 2
\* the same, when the handlers that use the code store are explored alone
\* (StoreSpec)
StoreMaxRequests == 3
StoreMaxPending == 1
\* number of binary digits of a draw of Math.random()
RandBits == 14
\* resolution of the multipliers of a fare: the value v stands for v / MulDen
MulDen == 2
\* a large multiplier of a fare
LargeMultiplier == 1000000

\* ------------------------------------------------------------------------
\* Program constants
\* ------------------------------------------------------------------------
\* storeOtp's default ttl, in milliseconds
DefaultTtl == 300000
\* jwt.sign(..., {expiresIn: "5m"}), in seconds
EnvelopeTtlSec == 300
\* calculateRidePrice
BASE_FARE == 5
RATE_PER_KM == 2

Sides == {"rider", "driver"}
Phones == {"p1", "p2"}
Emails == {"e1"}
Idents == Phones \cup Emails
Names == {"n1", "n2"}
UserIds == {1}
Null == "null"

\* ------------------------------------------------------------------------
\* Map<string, OtpData> as a function whose domain is the set of keys
\* ------------------------------------------------------------------------
MapSet(m, k, v) == [x \in (DOMAIN m) \cup {k} |-> IF x = k THEN v ELSE m[x]]
MapDelete(m, k) == [x \in (DOMAIN m) \ {k} |-> m[x]]
EmptyMap == [x \in {} |-> 0]

\* ------------------------------------------------------------------------
\* generateOtp: Math.floor(1000 + Math.random() * 9000).toString()
\* ------------------------------------------------------------------------
DigitStr(d) ==
  CASE d = 0 -> "0" [] d = 1 -> "1" [] d = 2 -> "2" [] d = 3 -> "3"
    [] d = 4 -> "4" [] d = 5 -> "5" [] d = 6 -> "6" [] d = 7 -> "7"
    [] d = 8 -> "8" [] d = 9 -> "9"

RECURSIVE NumToString(_)
NumToString(n) ==
  IF n < 10 THEN DigitStr(n) ELSE NumToString(n \div 10) \o DigitStr(n % 10)

\* The draw r stands for the double r / RandScale in [0, 1), a number of
\* RandBits binary digits after the point. For such a draw r * 9000 / RandScale
\* and 1000 + r * 9000 / RandScale have fewer than 53 significant binary
\* digits: the double product and the double sum are the exact ones, and
\* Math.floor of the sum is 1000 plus the integer quotient.
RandScale == 2 ^ RandBits

\* a generator without the offset: Math.floor(Math.random() * 10000)
generateOtpNoOffset(r) == NumToString((r * 10000) \div RandScale)

generateOtp(r) == NumToString(1000 + (r * 9000) \div RandScale)

\* the draws of Math.random() explored: the smallest and the largest
RandDraws == {0, RandScale - 1}
\* the codes a client may submit
Otps == {generateOtp(r) : r \in RandDraws}

\* ------------------------------------------------------------------------
\* Natural numbers of any size: the sequence of the digits in base
\* 2^LimbBits, the least significant first and the last one not 0; <<>> is 0.
\* (A significand of 53 bits and the product of two of them exceed the 32-bit
\* integers of TLC.)
\* ------------------------------------------------------------------------
\* the functions of the number library and of the fare computation call
\* each other through Call, defined after them
RECURSIVE Call(_, _)

LimbBits == 15
Base == 2 ^ LimbBits

\* a without the zero limbs at its high end
BigNorm(a) ==
  IF \A i \in DOMAIN a : a[i] = 0 THEN <<>>
  ELSE SubSeq(a, 1, CHOOSE i \in DOMAIN a :
                      a[i] # 0 /\ \A j \in (i + 1)..Len(a) : a[j] = 0)

\* the number n >= 0
RECURSIVE Big(_)
Big(n) == IF n = 0 THEN <<>> ELSE <<n % Base>> \o Big(n \div Base)

\* the integer a, for a < 2^31
RECURSIVE BigInt(_)
BigInt(a) == IF a = <<>> THEN 0 ELSE a[1] + Base * BigInt(Tail(a))

Limb(a, i) == IF i \in DOMAIN a THEN a[i] ELSE 0

\* a + b: a carry enters limb i when a limb below it overflows and every
\* limb between the two passes a carry on
BigAdd(a, b) ==
  IF a = <<>> THEN b
  ELSE IF b = <<>> THEN a
  ELSE LET n == (IF Len(a) > Len(b) THEN Len(a) ELSE Len(b)) + 1
           s(i) == Limb(a, i) + Limb(b, i)
           carry(i) == \E j \in 1..(i - 1) :
                         /\ s(j) >= Base
                         /\ \A k \in (j + 1)..(i - 1) : s(k) = Base - 1
       IN BigNorm([i \in 1..n |->
                     (s(i) + (IF carry(i) THEN 1 ELSE 0)) % Base])

\* a - b, for a >= b: limb i lends when a limb below it is short and every
\* limb between the two is 0
BigSub(a, b) ==
  IF a = b THEN <<>>
  ELSE LET d(i) == a[i] - Limb(b, i)
           borrow(i) == \E j \in 1..(i - 1) :
                          d(j) < 0 /\ \A k \in (j + 1)..(i - 1) : d(k) = 0
       IN BigNorm([i \in DOMAIN a |->
                     (d(i) - (IF borrow(i) THEN 1 ELSE 0) + Base) % Base])

\* -1, 0 or 1 as a is below, equal to or above b: their highest different
\* limbs decide
BigCmp(a, b) ==
  IF Len(a) # Len(b) THEN (IF Len(a) < Len(b) THEN -1 ELSE 1)
  ELSE IF a = b THEN 0
  ELSE LET i == CHOOSE k \in DOMAIN a :
                  a[k] # b[k] /\ \A j \in (k + 1)..Len(a) : a[j] = b[j]
       IN IF a[i] < b[i] THEN -1 ELSE 1

\* a * b: the column of weight Base^(k-1) sums the low halves of the
\* products a[i] * b[j] with i + j = k + 1 and the high halves of those
\* with i + j = k. The sum of the numbers f[i] >= 0 is the size of the bag
\* that holds f[i] copies of each i
BigMul(a, b) ==
  IF a = <<>> \/ b = <<>> THEN <<>>
  ELSE LET prod(i, j) == IF j \in DOMAIN b THEN a[i] * b[j] ELSE 0
           Sum(f) ==
             BagCardinality([i \in {j \in DOMAIN f : f[j] > 0} |-> f[i]])
           col(k) == Sum([i \in DOMAIN a |-> (prod(i, k + 1 - i) % Base)
                                               + (prod(i, k - i) \div Base)])
           n == Len(a) + Len(b)
           low == BigNorm([k \in 1..n |-> col(k) % Base])
           high == BigNorm(<<0>> \o [k \in 1..n |-> col(k) \div Base])
       IN <<low, high, BigAdd(low, high)>>[3]

\* a * 2^k
BigShl(a, k) ==
  LET q == k \div LimbBits
      p == 2 ^ (k % LimbBits)
  IN IF a = <<>> \/ k = 0 THEN a
     ELSE
     BigNorm([i \in 1..(Len(a) + q + 1) |->
                ((Limb(a, i - q) * p) % Base)
                  + ((Limb(a, i - q - 1) * p) \div Base)])

\* a \div 2^k
BigShr(a, k) ==
  LET q == k \div LimbBits
      p == 2 ^ (k % LimbBits)
      up == 2 ^ (LimbBits - (k % LimbBits))
  IN IF a = <<>> \/ k = 0 THEN a
     ELSE IF q >= Len(a) THEN <<>>
     ELSE BigNorm([i \in 1..(Len(a) - q) |->
                     (a[i + q] \div p) + (Limb(a, i + q + 1) % p) * up])

\* the number of binary digits of a
BigBitLen(a) ==
  IF a = <<>> THEN 0
  ELSE LimbBits * (Len(a) - 1)
         + (CHOOSE k \in 1..LimbBits :
              2 ^ (k - 1) <= a[Len(a)] /\ a[Len(a)] < 2 ^ k)

\* the long division of n by d, whose highest limb is at least Base / 2:
\* the limbs n[1..i] are still to be taken down to the remainder st.r. The
\* next limb of the quotient is at most 2 below its estimate from the two
\* highest limbs of the remainder and the highest of d
RECURSIVE DivFrom(_, _, _, _)
DivFrom(n, d, i, st) ==
  IF i = 0 THEN st
  ELSE LET r == IF st.r = <<>> /\ n[i] = 0 THEN <<>> ELSE <<n[i]>> \o st.r
           top == Limb(r, Len(d) + 1) * Base + Limb(r, Len(d))
           est == IF top \div d[Len(d)] > Base - 1 THEN Base - 1
                  ELSE top \div d[Len(d)]
           k == IF BigCmp(BigMul(d, Big(est)), r) <= 0 THEN est
                ELSE IF BigCmp(BigMul(d, Big(est - 1)), r) <= 0 THEN est - 1
                ELSE est - 2
           next == [q |-> <<k>> \o st.q, r |-> BigSub(r, BigMul(d, Big(k)))]
       IN <<r, k, next, DivFrom(n, d, i - 1, next)>>[4]

\* quotient and remainder of n by d > 0: both are shifted to bring the
\* highest limb of d to Base / 2 at least, and the division starts from the
\* Len(d) - 1 highest limbs of n
BigDivMod(n, d) ==
  LET sh == LimbBits * Len(d) - BigBitLen(d)
      n2 == BigShl(n, sh)
      d2 == BigShl(d, sh)
      i == Len(n2) - Len(d2) + 1
      st == DivFrom(n2, d2, i, [q |-> <<>>, r |-> SubSeq(n2, i + 1, Len(n2))])
  IN IF BigCmp(n, d) < 0 THEN [q |-> <<>>, r |-> n]
     ELSE <<n2, d2, st, [q |-> BigNorm(st.q), r |-> BigShr(st.r, sh)]>>[4]

\* the largest r with r * r <= n, for x * x >= n: Newton's iteration
RECURSIVE SqrtFrom(_, _)
SqrtFrom(n, x) ==
  LET dm == Call("BigDivMod", <<n, x>>)
      sum == BigAdd(x, dm.q)
      y == BigShr(sum, 1)
  IN <<dm, sum, y, IF BigCmp(y, x) >= 0 THEN x ELSE SqrtFrom(n, y)>>[4]

\* the largest r with r * r <= n; the iteration starts above the root, from
\* the root of the 15 or 16 highest binary digits of n
BigSqrt(n) ==
  LET len == BigBitLen(n)
      sh == IF len > 16 THEN 2 * ((len - 15) \div 2) ELSE 0
      top == BigInt(BigShr(n, sh))
      r0 == CHOOSE r \in 1..256 : (r - 1) * (r - 1) <= top /\ top < r * r
      x0 == BigShl(<<r0>>, sh \div 2)
  IN IF n = <<>> THEN n ELSE <<x0, SqrtFrom(n, x0)>>[2]

\* the decimal digits of a
RECURSIVE BigToString(_)
BigToString(a) ==
  IF Len(a) <= 2 THEN NumToString(BigInt(a))
  ELSE LET dm == Call("BigDivMod", <<a, Big(10000)>>)
           low == NumToString(10000 + BigInt(dm.r))
       IN <<dm, BigToString(dm.q) \o SubSeq(low, 2, 5)>>[2]

\* ------------------------------------------------------------------------
\* Numbers: the doubles of IEEE 754. A number is s * m * 2^e with the sign
\* s, a significand m of at most 53 bits (exactly 53 unless the number is
\* subnormal, e = MinExp) and MinExp <= e <= MaxExp; s = 0 marks NaN and
\* e = InfExp an infinity. Every operation rounds its exact result to the
\* nearest number, ties to the even significand.
\* ------------------------------------------------------------------------
SigBits == 53
MinExp == -1074
MaxExp == 971
InfExp == 2000

FNaN == [s |-> 0, m |-> <<>>, e |-> 0]
FZero == [s |-> 1, m |-> <<>>, e |-> 0]
FInf(s) == [s |-> s, m |-> <<>>, e |-> InfExp]
IsNaN(x) == x.s = 0
IsInf(x) == x.e = InfExp
IsZero(x) == x.s # 0 /\ x.m = <<>> /\ x.e = 0

\* s * m * 2^e for m of at most 53 bits
Finite(s, m, e) ==
  IF m = <<>> THEN [s |-> s, m |-> m, e |-> 0]
  ELSE IF e > MaxExp THEN FInf(s)
  ELSE [s |-> s, m |-> m, e |-> e]

\* the number nearest to s * M * 2^e; sticky says that the exact value is
\* slightly above M * 2^e
FRound(s, M, e, sticky) ==
  IF M = <<>> THEN Finite(s, M, 0)
  ELSE LET len == BigBitLen(M)
           k == IF len - SigBits > MinExp - e THEN len - SigBits
                ELSE MinExp - e
       IN IF k <= 0
          THEN LET t == IF SigBits - len < e - MinExp THEN SigBits - len
                        ELSE e - MinExp
               IN Finite(s, BigShl(M, t), e - t)
          ELSE LET \* the binary digit of weight 2^i
                   Bit(a, i) ==
                     (Limb(a, i \div LimbBits + 1) \div 2 ^ (i % LimbBits)) % 2
                   q == BigShr(M, k)
                   \* M is a multiple of 2^(k-1)
                   lowZero ==
                     /\ \A i \in 1..((k - 1) \div LimbBits) : Limb(M, i) = 0
                     /\ Limb(M, (k - 1) \div LimbBits + 1)
                          % 2 ^ ((k - 1) % LimbBits) = 0
                   up == /\ Bit(M, k - 1) = 1
                         /\ \/ sticky
                            \/ ~lowZero
                            \/ Bit(q, 0) = 1
                   q2 == IF up THEN BigAdd(q, <<1>>) ELSE q
               IN IF BigBitLen(q2) > SigBits
                  THEN Finite(s, BigShr(q2, 1), e + k + 1)
                  ELSE Finite(s, q2, e + k)

\* an integer literal or an integer-valued field of the request body
FromInt(n) ==
  Call("FRound",
       <<IF n < 0 THEN -1 ELSE 1, Big(IF n < 0 THEN -n ELSE n), 0, FALSE>>)

\* the double of the sign s, the high word hi without its sign bit and the
\* two halves l1, l0 of the low word
FromWords(s, hi, l1, l0) ==
  LET be == hi \div 2 ^ 20
      top == IF be = 0 THEN hi % 2 ^ 20 ELSE (hi % 2 ^ 20) + 2 ^ 20
      m == BigAdd(BigShl(Big(top), 32), BigAdd(BigShl(Big(l1), 16), Big(l0)))
  IN Finite(s, m, (IF be = 0 THEN 1 ELSE be) - 1075)

\* the high word of |x|: the exponent and the first 20 bits of the fraction
HighWord(x) ==
  IF IsNaN(x) THEN \H7FF80000
  ELSE IF IsInf(x) THEN \H7FF00000
  ELSE LET top == BigInt(BigShr(x.m, 32))
       IN IF top >= 2 ^ 20 THEN (x.e + 1075) * 2 ^ 20 + (top - 2 ^ 20)
          ELSE top

FNeg(x) == IF IsNaN(x) THEN x ELSE [x EXCEPT !.s = -x.s]
FAbs(x) == IF IsNaN(x) THEN x ELSE [x EXCEPT !.s = 1]

\* the number nearest to the product of x and y
RoundedProduct(x, y) ==
  IF x.m # <<>> /\ y.m # <<>>
  THEN LET M == BigMul(x.m, y.m)
       IN <<M, Call("FRound", <<x.s * y.s, M, x.e + y.e, FALSE>>)>>[2]
  ELSE IF IsNaN(x) \/ IsNaN(y) THEN FNaN
  ELSE IF IsInf(x) \/ IsInf(y)
  THEN (IF IsZero(x) \/ IsZero(y) THEN FNaN ELSE FInf(x.s * y.s))
  ELSE Finite(x.s * y.s, <<>>, 0)

\* the number nearest to the sum of x and y
RoundedSum(x, y) ==
  IF x.m # <<>> /\ y.m # <<>>
  THEN LET hi == IF x.e < y.e THEN y ELSE x
           lo == IF x.e < y.e THEN x ELSE y
           d == hi.e - lo.e
           A == BigShl(hi.m, d)
           c == BigCmp(A, lo.m)
           \* the exact result, or for far-apart numbers one that rounds
           \* alike: 4 * hi.m, and a sticky digit above or below it
           M == IF d > SigBits + 7
                THEN (IF hi.s = lo.s THEN BigShl(hi.m, 2)
                      ELSE BigSub(BigShl(hi.m, 2), <<1>>))
                ELSE IF hi.s = lo.s THEN BigAdd(A, lo.m)
                ELSE IF c >= 0 THEN BigSub(A, lo.m)
                ELSE BigSub(lo.m, A)
       IN <<M, IF d > SigBits + 7
               THEN Call("FRound", <<hi.s, M, hi.e - 2, TRUE>>)
               ELSE IF hi.s # lo.s /\ c = 0 THEN FZero
               ELSE IF hi.s # lo.s /\ c < 0
               THEN Call("FRound", <<lo.s, M, lo.e, FALSE>>)
               ELSE Call("FRound", <<hi.s, M, lo.e, FALSE>>)>>[2]
  ELSE IF IsNaN(x) \/ IsNaN(y) THEN FNaN
  ELSE IF IsInf(x) THEN (IF IsInf(y) /\ y.s # x.s THEN FNaN ELSE x)
  ELSE IF IsInf(y) THEN y
  ELSE IF x.m = <<>> /\ y.m = <<>> THEN (IF x.s = y.s THEN x ELSE FZero)
  ELSE IF x.m = <<>> THEN y
  ELSE x

\* x * y, x + y, x - y, x / y
FMul(x, y) == Call("RoundedProduct", <<x, y>>)
FAdd(x, y) == Call("RoundedSum", <<x, y>>)
FSub(x, y) == FAdd(x, FNeg(y))
FDiv(x, y) == Call("RoundedQuotient", <<x, y>>)

\* the number nearest to the quotient of x by y
RoundedQuotient(x, y) ==
  IF x.m # <<>> /\ y.m # <<>>
  THEN LET sh == BigBitLen(y.m) + SigBits + 2 - BigBitLen(x.m)
           num == BigShl(x.m, sh)
           dm == Call("BigDivMod", <<num, y.m>>)
       IN <<num, dm, Call("FRound", <<x.s * y.s, dm.q, x.e - sh - y.e,
                                      dm.r # <<>>>>)>>[3]
  ELSE IF IsNaN(x) \/ IsNaN(y) THEN FNaN
  ELSE IF IsInf(x) THEN (IF IsInf(y) THEN FNaN ELSE FInf(x.s * y.s))
  ELSE IF IsInf(y) THEN Finite(x.s * y.s, <<>>, 0)
  ELSE IF y.m = <<>> THEN (IF x.m = <<>> THEN FNaN ELSE FInf(x.s * y.s))
  ELSE Finite(x.s * y.s, <<>>, 0)

\* x === y of two numbers: NaN is not equal to itself, -0 is equal to 0
FEq(x, y) ==
  /\ ~IsNaN(x) /\ ~IsNaN(y)
  /\ x = y \/ (IsZero(x) /\ IsZero(y))

\* Math.sqrt
MathSqrt(x) ==
  IF x.m # <<>> /\ x.s > 0
  THEN LET k0 == 2 * SigBits + 4 - BigBitLen(x.m)
           k == IF (x.e - k0) % 2 = 0 THEN k0 ELSE k0 + 1
           n == BigShl(x.m, k)
           q == Call("BigSqrt", <<n>>)
           sq == BigMul(q, q)
       IN <<n, q, sq, Call("FRound", <<1, q, (x.e - k) \div 2, sq # n>>)>>[4]
  ELSE IF IsNaN(x) THEN FNaN
  ELSE IF x.m = <<>> /\ ~IsInf(x) THEN x
  ELSE IF x.s < 0 THEN FNaN
  ELSE x

\* ------------------------------------------------------------------------
\* Math.sin, Math.cos and Math.atan2 as the engine computes them (the
\* routines of fdlibm, in doubles): a polynomial on a reduced argument.
\* ------------------------------------------------------------------------
\* the value of the last of the statements, which are evaluated in this
\* order, each one once
Last(statements) == statements[Len(statements)]

FHalf == Call("FromWords", <<1, \H3FE00000, 0, 0>>)

\* Math.PI
MathPI == Call("FromWords", <<1, \H400921FB, \H5444, \H2D18>>)

\* c[1] + z * (c[2] + z * (... + z * c[n])), from the innermost product
\* outwards; acc is c[i+1] + z * (...)
RECURSIVE Horner(_, _, _, _)
Horner(c, z, i, acc) ==
  IF i = 0 THEN acc
  ELSE LET t == FAdd(c[i], FMul(z, acc))
       IN IF IsNaN(t) THEN FNaN ELSE Horner(c, z, i - 1, t)

\* the polynomial c[1] + c[2] * z + ... + c[n] * z^(n-1)
Poly(c, z) == Horner(c, z, Len(c) - 1, c[Len(c)])

\* sin(x + y) for |x| <= PI/4 and the tail y of x (iy = 0: y is 0)
kernel_sin(x, y, iy) ==
  IF Call("HighWord", <<x>>) < \H3E400000 THEN x
  ELSE LET S1 == Call("FromWords", <<-1, \H3FC55555, \H5555, \H5549>>)
           S2 == Call("FromWords", <<1, \H3F811111, \H1110, \HF8A6>>)
           S3 == Call("FromWords", <<-1, \H3F2A01A0, \H19C1, \H61D5>>)
           S4 == Call("FromWords", <<1, \H3EC71DE3, \H57B1, \HFE7D>>)
           S5 == Call("FromWords", <<-1, \H3E5AE5E6, \H8A2B, \H9CEB>>)
           S6 == Call("FromWords", <<1, \H3DE5D93A, \H5ACF, \HD57C>>)
           z == FMul(x, x)
           v == FMul(z, x)
           r == Call("Poly", <<<<S2, S3, S4, S5, S6>>, z>>)
           \* S1 + z * r
           p == FAdd(S1, FMul(z, r))
           \* z * (half * y - v * r) - y
           q == FSub(FMul(z, FSub(FMul(FHalf, y), FMul(v, r))), y)
       IN IF iy = 0 THEN Last(<<z, v, r, p, FAdd(x, FMul(v, p))>>)
          ELSE Last(<<z, v, r, q, FSub(x, FSub(q, FMul(v, S1)))>>)

\* cos(x + y) for |x| <= PI/4 and the tail y of x
kernel_cos(x, y) ==
  LET C1 == Call("FromWords", <<1, \H3FA55555, \H5555, \H554C>>)
      C2 == Call("FromWords", <<-1, \H3F56C16C, \H16C1, \H5177>>)
      C3 == Call("FromWords", <<1, \H3EFA01A0, \H19CB, \H1590>>)
      C4 == Call("FromWords", <<-1, \H3E927E4F, \H809C, \H52AD>>)
      C5 == Call("FromWords", <<1, \H3E21EE9E, \HBDB4, \HB1C4>>)
      C6 == Call("FromWords", <<-1, \H3DA8FAE9, \HBE88, \H38D4>>)
      ix == Call("HighWord", <<x>>)
      z == FMul(x, x)
      r == FMul(z, Call("Poly", <<<<C1, C2, C3, C4, C5, C6>>, z>>))
      \* z * r - x * y
      t == FSub(FMul(z, r), FMul(x, y))
      qx == IF ix > \H3FE90000 THEN Call("FromWords", <<1, \H3FD20000, 0, 0>>)
            ELSE Call("FromWords", <<1, ix - \H00200000, 0, 0>>)
      hz == FSub(FMul(FHalf, z), qx)
  IN IF ix < \H3E400000 THEN FromInt(1)
     ELSE IF ix < \H3FD33333
     THEN Last(<<z, r, t, FSub(FromInt(1), FSub(FMul(FHalf, z), t))>>)
     ELSE Last(<<z, r, t, hz, FSub(FSub(FromInt(1), qx), FSub(hz, t))>>)

\* PI/2 in three pieces pio2_1, pio2_2, pio2_3 of 33 bits, each with its
\* tail pio2_1t, pio2_2t, pio2_3t (PI/2 without the pieces so far)
pio2 ==
  <<[head |-> Call("FromWords", <<1, \H3FF921FB, \H5440, 0>>),
     tail |-> Call("FromWords", <<1, \H3DD0B461, \H1A62, \H6331>>)],
    [head |-> Call("FromWords", <<1, \H3DD0B461, \H1A60, 0>>),
     tail |-> Call("FromWords", <<1, \H3BA3198A, \H2E03, \H7073>>)],
    [head |-> Call("FromWords", <<1, \H3BA3198A, \H2E00, 0>>),
     tail |-> Call("FromWords", <<1, \H397B839A, \H2520, \H49C1>>)]>>

\* the pair y0 = r - w and y1 = (r - y0) - w of the reduced argument
Reduced(n, r, w) ==
  LET y0 == FSub(r, w)
  IN Last(<<y0, [n |-> n, y0 |-> y0, y1 |-> FSub(FSub(r, y0), w)]>>)

\* t - n * PI/2 for t > 0, with PI/2 taken in one, two or three pieces
rem_pio2_medium(t, ix) ==
  LET invpio2 == Call("FromWords", <<1, \H3FE45F30, \H6DC9, \HC883>>)
      \* (int) (t * invpio2 + half); the sum is positive and below 2^31
      tn == FAdd(FMul(t, invpio2), FHalf)
      n == BigInt(IF tn.e >= 0 THEN BigShl(tn.m, tn.e) ELSE BigShr(tn.m, -tn.e))
      \* the high words of n * PI/2, n = 1..32
      npio2_hw ==
        <<\H3FF921FB, \H400921FB, \H4012D97C, \H401921FB, \H401F6A7A, \H4022D97C,
          \H4025FDBB, \H402921FB, \H402C463A, \H402F6A7A, \H4031475C, \H4032D97C,
          \H40346B9C, \H4035FDBB, \H40378FDB, \H403921FB, \H403AB41B, \H403C463A,
          \H403DD85A, \H403F6A7A, \H40407E4C, \H4041475C, \H4042106C, \H4042D97C,
          \H4043A28C, \H40446B9C, \H404534AC, \H4045FDBB, \H4046C6CB, \H40478FDB,
          \H404858EB, \H404921FB>>
      fn == FromInt(n)
      j == ix \div 2 ^ 20
      r1 == FSub(t, FMul(fn, pio2[1].head))
      w1 == FMul(fn, pio2[1].tail)
      y1 == FSub(r1, w1)
      r2 == FSub(r1, FMul(fn, pio2[2].head))
      w2 == FSub(FMul(fn, pio2[2].tail),
                 FSub(FSub(r1, r2), FMul(fn, pio2[2].head)))
      y2 == FSub(r2, w2)
      r3 == FSub(r2, FMul(fn, pio2[3].head))
      w3 == FSub(FMul(fn, pio2[3].tail),
                 FSub(FSub(r2, r3), FMul(fn, pio2[3].head)))
  IN IF \/ n < 32 /\ ix # npio2_hw[n]
        \/ j - Call("HighWord", <<y1>>) \div 2 ^ 20 <= 16
     THEN Last(<<r1, w1, Call("Reduced", <<n, r1, w1>>)>>)
     ELSE IF j - Call("HighWord", <<y2>>) \div 2 ^ 20 <= 49
     THEN Last(<<r2, w2, Call("Reduced", <<n, r2, w2>>)>>)
     ELSE Last(<<r3, w3, Call("Reduced", <<n, r3, w3>>)>>)

\* __kernel_rem_pio2 as __ieee754_rem_pio2 calls it for t = |x| above
\* 2^19 * PI/2 (t in three pieces of 24 bits, the result in two numbers):
\* t is multiplied by the digits of 2 / PI that decide its place in the
\* period, the whole part of the product gives n and its fraction, times
\* PI/2, gives y0 + y1. The products and their carries are whole numbers of
\* less than 2^53 in the code and are written as whole numbers here
kernel_rem_pio2(t) ==
  LET \* the digits of 2 / PI, 24 bits each
      two_over_pi ==
        <<\HA2F983, \H6E4E44, \H1529FC, \H2757D1, \HF534DD, \HC0DB62,
          \H95993C, \H439041, \HFE5163, \HABDEBB, \HC561B7, \H246E3A,
          \H424DD2, \HE00649, \H2EEA09, \HD1921C, \HFE1DEB, \H1CB129,
          \HA73EE8, \H8235F5, \H2EBB44, \H84E99C, \H7026B4, \H5F7E41,
          \H3991D6, \H398353, \H39F49C, \H845F8B, \HBDF928, \H3B1FF8,
          \H97FFDE, \H05980F, \HEF2F11, \H8B5A0A, \H6D1F6D, \H367ECF,
          \H27CB09, \HB74F46, \H3F669E, \H5FEA2D, \H7527BA, \HC7EBE5,
          \HF17B3D, \H0739F7, \H8A5292, \HEA6BFB, \H5FB11F, \H8D5D08,
          \H560330, \H46FC7B, \H6BABF0, \HCFBC20, \H9AF436, \H1DA9E3,
          \H91615E, \HE61B08, \H659985, \H5F14A0, \H68408D, \HFFD880,
          \H4D7327, \H310606, \H1556CA, \H73A8C9, \H60E27B, \HC08C6B>>
      \* PI/2 in pieces of 24 bits
      PIo2 ==
        <<Call("FromWords", <<1, \H3FF921FB, \H4000, \H0000>>),
          Call("FromWords", <<1, \H3E74442D, \H0000, \H0000>>),
          Call("FromWords", <<1, \H3CF84698, \H8000, \H0000>>),
          Call("FromWords", <<1, \H3B78CC51, \H6000, \H0000>>),
          Call("FromWords", <<1, \H39F01B83, \H8000, \H0000>>),
          Call("FromWords", <<1, \H387A2520, \H4000, \H0000>>),
          Call("FromWords", <<1, \H36E38222, \H8000, \H0000>>),
          Call("FromWords", <<1, \H3569F31D, \H0000, \H0000>>)>>
      jk == 4
      \* the operations on whole numbers
      Add(a, b) == Call("BigAdd", <<a, b>>)
      Sub(a, b) == Call("BigSub", <<a, b>>)
      Mul(a, b) == Call("BigMul", <<a, b>>)
      Shl(a, k) == Call("BigShl", <<a, k>>)
      Shr(a, k) == Call("BigShr", <<a, k>>)
      BitLen(a) == Call("BigBitLen", <<a>>)
      \* t = (tx[1] + tx[2] / 2^24 + tx[3] / 2^48) * 2^e0
      e0 == t.e + 29
      head == Shr(t.m, 29)
      mid == Shr(t.m, 5)
      tx == <<head, Sub(mid, Shl(head, 24)), Shl(Sub(t.m, Shl(mid, 5)), 19)>>
      jv == IF e0 < 3 THEN 0 ELSE (e0 - 3) \div 24
      q0 == e0 - 24 * (jv + 1)
      ipio2(i) == IF i < 0 THEN <<>> ELSE Big(two_over_pi[i + 1])
      q(i) == Add(Add(Mul(tx[1], ipio2(jv + i)), Mul(tx[2], ipio2(jv + i - 1))),
                  Mul(tx[3], ipio2(jv + i - 2)))
      \* q(0), ..., q(jz) with their carries: t * 2 / PI in units of
      \* 2^(q0 - 24 * jz), its digits before those of ipio2(jv - 2) left out
      total[jz \in Nat] ==
        IF jz = 0 THEN q(0) ELSE Add(Shl(total[jz - 1], 24), q(jz))
      \* the whole part modulo 8 and the fraction of the product from jz + 1
      \* terms; a fraction of at least one half is replaced by its
      \* distance to 1 (ih). When its digits of weight above 2^(-24 * jk)
      \* are all zero, as many terms are added as digits below are zero too
      distill[jz \in Nat] ==
        LET fb == 24 * jz - q0
            whole == Shr(total[jz], fb)
            frac == Sub(total[jz], Shl(whole, fb))
            ih == BitLen(frac) = fb
            fr == IF ih THEN Sub(Shl(<<1>>, fb), frac) ELSE frac
        IN IF BitLen(fr) <= 24 * jk
           THEN distill[jz + jk - (BitLen(fr) - 1) \div 24]
           ELSE [n |-> (Limb(whole, 1) + (IF ih THEN 1 ELSE 0)) % 8,
                 ih |-> ih, fr |-> fr, fb |-> fb]
      d == distill[jk]
      \* the digits of the fraction, 24 bits each, as numbers
      jz == (BitLen(d.fr) - 1) \div 24
      iq(i) == Sub(Shr(d.fr, 24 * i), Shl(Shr(d.fr, 24 * (i + 1)), 24))
      qf(i) == Call("FRound", <<1, iq(i), 24 * i - d.fb, FALSE>>)
      \* PIo2 * q: fq[i] is the sum of PIo2[k] * q[jz - i + k], k = 0..jk
      term[i \in Nat, k \in Nat] ==
        FAdd(IF k = 0 THEN FZero ELSE term[i, k - 1],
             FMul(PIo2[k + 1], qf(jz - i + k)))
      fq[i \in Nat] == term[i, IF i < jk THEN i ELSE jk]
      \* fq[jz] + ... + fq[i], the smallest first
      down[i \in Nat] == FAdd(IF i = jz THEN FZero ELSE down[i + 1], fq[i])
      y0 == down[0]
      \* what the sum y0 left out of fq[0], then fq[1] + ... + fq[i]
      rest[i \in Nat] ==
        IF i = 0 THEN FSub(fq[0], y0) ELSE FAdd(rest[i - 1], fq[i])
      y1 == rest[jz]
  IN <<y0, y1, [n |-> d.n,
                y0 |-> IF d.ih THEN FNeg(y0) ELSE y0,
                y1 |-> IF d.ih THEN FNeg(y1) ELSE y1]>>[3]

\* x = n * PI/2 + y0 + y1 with |y0| <= PI/4, n modulo 8 for |x| above
\* 2^19 * PI/2
rem_pio2(x) ==
  LET ix == Call("HighWord", <<x>>)
      t == FAbs(x)
      z == FSub(t, pio2[1].head)
      z2 == FSub(z, pio2[2].head)
      p == IF ix > \H413921FB THEN Call("kernel_rem_pio2", <<t>>)
           ELSE IF ix >= \H4002D97C THEN Call("rem_pio2_medium", <<t, ix>>)
           ELSE IF ix # \H3FF921FB
           THEN Last(<<z, Call("Reduced", <<1, z, pio2[1].tail>>)>>)
           ELSE Last(<<z, z2, Call("Reduced", <<1, z2, pio2[2].tail>>)>>)
  IN IF ix <= \H3FE921FB THEN [n |-> 0, y0 |-> x, y1 |-> FZero]
     ELSE IF ix >= \H7FF00000 THEN [n |-> 0, y0 |-> FNaN, y1 |-> FNaN]
     ELSE IF x.s < 0 THEN [n |-> -p.n, y0 |-> FNeg(p.y0), y1 |-> FNeg(p.y1)]
     ELSE p

\* Math.sin
MathSin(x) ==
  LET ix == Call("HighWord", <<x>>)
      p == Call("rem_pio2", <<x>>)
      k == p.n % 4
  IN IF ix <= \H3FE921FB THEN Call("kernel_sin", <<x, FZero, 0>>)
     ELSE IF ix >= \H7FF00000 THEN FNaN
     ELSE IF k = 0 THEN Call("kernel_sin", <<p.y0, p.y1, 1>>)
     ELSE IF k = 1 THEN Call("kernel_cos", <<p.y0, p.y1>>)
     ELSE IF k = 2 THEN FNeg(Call("kernel_sin", <<p.y0, p.y1, 1>>))
     ELSE FNeg(Call("kernel_cos", <<p.y0, p.y1>>))

\* Math.cos
MathCos(x) ==
  LET ix == Call("HighWord", <<x>>)
      p == Call("rem_pio2", <<x>>)
      k == p.n % 4
  IN IF ix <= \H3FE921FB THEN Call("kernel_cos", <<x, FZero>>)
     ELSE IF ix >= \H7FF00000 THEN FNaN
     ELSE IF k = 0 THEN Call("kernel_cos", <<p.y0, p.y1>>)
     ELSE IF k = 1 THEN FNeg(Call("kernel_sin", <<p.y0, p.y1, 1>>))
     ELSE IF k = 2 THEN FNeg(Call("kernel_cos", <<p.y0, p.y1>>))
     ELSE Call("kernel_sin", <<p.y0, p.y1, 1>>)

\* Math.atan; id is 0 where the routine has -1, and 1..4 for its 0..3
MathAtan(x0) ==
  LET atanhi ==
        <<Call("FromWords", <<1, \H3FDDAC67, \H0561, \HBB4F>>),
          Call("FromWords", <<1, \H3FE921FB, \H5444, \H2D18>>),
          Call("FromWords", <<1, \H3FEF730B, \HD281, \HF69B>>),
          Call("FromWords", <<1, \H3FF921FB, \H5444, \H2D18>>)>>
      atanlo ==
        <<Call("FromWords", <<1, \H3C7A2B7F, \H222F, \H65E2>>),
          Call("FromWords", <<1, \H3C81A626, \H3314, \H5C07>>),
          Call("FromWords", <<1, \H3C700788, \H7AF0, \HCBBD>>),
          Call("FromWords", <<1, \H3C91A626, \H3314, \H5C07>>)>>
      aT ==
        <<Call("FromWords", <<1, \H3FD55555, \H5555, \H550D>>),
          Call("FromWords", <<-1, \H3FC99999, \H9998, \HEBC4>>),
          Call("FromWords", <<1, \H3FC24924, \H9200, \H83FF>>),
          Call("FromWords", <<-1, \H3FBC71C6, \HFE23, \H1671>>),
          Call("FromWords", <<1, \H3FB745CD, \HC54C, \H206E>>),
          Call("FromWords", <<-1, \H3FB3B0F2, \HAF74, \H9A6D>>),
          Call("FromWords", <<1, \H3FB10D66, \HA0D0, \H3D51>>),
          Call("FromWords", <<-1, \H3FADDE2D, \H52DE, \HFD9A>>),
          Call("FromWords", <<1, \H3FA97B4B, \H2476, \H0DEB>>),
          Call("FromWords", <<-1, \H3FA2B444, \H2C6A, \H6C2F>>),
          Call("FromWords", <<1, \H3F90AD3A, \HE322, \HDA11>>)>>
      ix == Call("HighWord", <<x0>>)
      a == FAbs(x0)
      id == IF ix < \H3FDC0000 THEN 0
            ELSE IF ix < \H3FE60000 THEN 1
            ELSE IF ix < \H3FF30000 THEN 2
            ELSE IF ix < \H40038000 THEN 3
            ELSE 4
      onehalf == Call("FromWords", <<1, \H3FF80000, 0, 0>>)
      num == IF id = 1 THEN FSub(FMul(FromInt(2), a), FromInt(1))
             ELSE IF id = 2 THEN FSub(a, FromInt(1))
             ELSE IF id = 3 THEN FSub(a, onehalf)
             ELSE FNeg(FromInt(1))
      den == IF id = 1 THEN FAdd(FromInt(2), a)
             ELSE IF id = 2 THEN FAdd(a, FromInt(1))
             ELSE IF id = 3 THEN FAdd(FromInt(1), FMul(onehalf, a))
             ELSE a
      x == IF id = 0 THEN x0 ELSE Last(<<num, den, FDiv(num, den)>>)
      z == FMul(x, x)
      w == FMul(z, z)
      s1 == FMul(z, Call("Poly", <<<<aT[1], aT[3], aT[5], aT[7], aT[9],
                                     aT[11]>>, w>>))
      s2 == FMul(w, Call("Poly", <<<<aT[2], aT[4], aT[6], aT[8], aT[10]>>, w>>))
      \* x * (s1 + s2)
      xs == FMul(x, FAdd(s1, s2))
      r == FSub(atanhi[id], FSub(FSub(xs, atanlo[id]), x))
  IN IF IsNaN(x0) THEN FNaN
     ELSE IF ix >= \H44100000
     THEN (IF x0.s < 0 THEN FNeg(FAdd(atanhi[4], atanlo[4]))
           ELSE FAdd(atanhi[4], atanlo[4]))
     ELSE IF ix < \H3E200000 THEN x0
     ELSE IF id = 0 THEN Last(<<x, z, w, s1, s2, xs, FSub(x, xs)>>)
     ELSE Last(<<x, z, w, s1, s2, xs, IF x0.s < 0 THEN FNeg(r) ELSE r>>)

\* Math.atan2(y, x)
MathAtan2(y, x) ==
  LET pi_lo == Call("FromWords", <<1, \H3CA1A626, \H3314, \H5C07>>)
      pi_o_2 == Call("FromWords", <<1, \H3FF921FB, \H5444, \H2D18>>)
      pi_o_4 == Call("FromWords", <<1, \H3FE921FB, \H5444, \H2D18>>)
      ix == Call("HighWord", <<x>>)
      iy == Call("HighWord", <<y>>)
      \* 2 * sign(x) + sign(y)
      m == (IF y.s < 0 THEN 1 ELSE 0) + (IF x.s < 0 THEN 2 ELSE 0)
      far == (iy - ix) \div 2 ^ 20
      quot == FAbs(FDiv(y, x))
      z == IF far > 60 THEN FAdd(pi_o_2, FMul(FHalf, pi_lo))
           ELSE IF x.s < 0 /\ far < -60 THEN FZero
           ELSE Last(<<quot, Call("MathAtan", <<quot>>)>>)
      m2 == IF far > 60 THEN m % 2 ELSE m
  IN IF IsNaN(x) \/ IsNaN(y) THEN FNaN
     ELSE IF x = FromInt(1) THEN Call("MathAtan", <<y>>)
     ELSE IF IsZero(y)
     THEN (IF m \in {0, 1} THEN y ELSE IF m = 2 THEN MathPI ELSE FNeg(MathPI))
     ELSE IF IsZero(x) THEN (IF y.s < 0 THEN FNeg(pi_o_2) ELSE pi_o_2)
     ELSE IF IsInf(x)
     THEN (IF IsInf(y)
           THEN (IF m = 0 THEN pi_o_4
                 ELSE IF m = 1 THEN FNeg(pi_o_4)
                 ELSE IF m = 2 THEN FMul(FromInt(3), pi_o_4)
                 ELSE FNeg(FMul(FromInt(3), pi_o_4)))
           ELSE (IF m = 0 THEN FZero
                 ELSE IF m = 1 THEN FNeg(FZero)
                 ELSE IF m = 2 THEN MathPI
                 ELSE FNeg(MathPI)))
     ELSE IF IsInf(y) THEN (IF y.s < 0 THEN FNeg(pi_o_2) ELSE pi_o_2)
     ELSE IF m2 = 0 THEN z
     ELSE IF m2 = 1 THEN Last(<<z, FNeg(z)>>)
     ELSE IF m2 = 2 THEN Last(<<z, FSub(MathPI, FSub(z, pi_lo))>>)
     ELSE Last(<<z, FSub(FSub(z, pi_lo), MathPI)>>)

\* ------------------------------------------------------------------------
\* Fare estimation (driver.controller): request bodies carry coordinates in
\* whole degrees and multipliers in units of 1 / MulDen
\* ------------------------------------------------------------------------
Absent == [present |-> FALSE, v |-> 0]
Given(v) == [present |-> TRUE, v |-> v]
NoLocation == [present |-> FALSE, latitude |-> 0, longitude |-> 0]
Location(latitude, longitude) ==
  [present |-> TRUE, latitude |-> latitude, longitude |-> longitude]

\* the places a request names: two pairs of near places, far from each other
Places ==
  {Location(9, 0), Location(10, 2), Location(-7, 175), Location(-6, 176)}

\* degrees * (Math.PI / 180)
toRadians(degrees) == FMul(degrees, FDiv(MathPI, FromInt(180)))

\* the distance in kilometers
haversineDistance(loc1, loc2) ==
  LET R == FromInt(6371)
      dLat == Call("toRadians", <<FSub(FromInt(loc2.latitude),
                                       FromInt(loc1.latitude))>>)
      dLon == Call("toRadians", <<FSub(FromInt(loc2.longitude),
                                       FromInt(loc1.longitude))>>)
      lat1 == Call("toRadians", <<FromInt(loc1.latitude)>>)
      lat2 == Call("toRadians", <<FromInt(loc2.latitude)>>)
      sinLat == Call("MathSin", <<FDiv(dLat, FromInt(2))>>)
      sinLon == Call("MathSin", <<FDiv(dLon, FromInt(2))>>)
      a == FAdd(FMul(sinLat, sinLat),
                FMul(FMul(FMul(sinLon, sinLon), Call("MathCos", <<lat1>>)),
                     Call("MathCos", <<lat2>>)))
      y == Call("MathSqrt", <<a>>)
      x == Call("MathSqrt", <<FSub(FromInt(1), a)>>)
      c == FMul(FromInt(2), Call("MathAtan2", <<y, x>>))
  IN Last(<<dLat, dLon, lat1, lat2, sinLat, sinLon, a, y, x, c, FMul(R, c)>>)

\* a place on the equator and one with a longitude that no map has: the
\* handler does not check the range of a coordinate
FarPlaces == {Location(0, 0), Location(0, 400000000)}

\* haversineDistance between the places of the requests, each computed once
Distances ==
  {[loc1 |-> p, loc2 |-> q, km |-> Call("haversineDistance", <<p, q>>)] :
     p, q \in Places \cup FarPlaces}

\* haversineDistance(pickup, destination), read from Distances where it is
\* there
distanceInKm(pickup, destination) ==
  IF \E d \in Distances : d.loc1 = pickup /\ d.loc2 = destination
  THEN (CHOOSE d \in Distances : d.loc1 = pickup /\ d.loc2 = destination).km
  ELSE Call("haversineDistance", <<pickup, destination>>)

\* the number of a body field given in units of 1 / MulDen
Multiplier(v) == FDiv(FromInt(v), FromInt(MulDen))

\* the fare without the line totalFare *= trafficFactor
totalFareNoTraffic(distance, surgeMultiplier, trafficFactor, weatherFactor, timeFactor) ==
  FMul(FMul(FMul(FAdd(FromInt(BASE_FARE), FMul(distance, FromInt(RATE_PER_KM))),
                 Multiplier(surgeMultiplier)),
            Multiplier(weatherFactor)),
       Multiplier(timeFactor))

\* BASE_FARE + distanceInKm * RATE_PER_KM, then the four multiplications
totalFare(distance, surgeMultiplier, trafficFactor, weatherFactor, timeFactor) ==
  FMul(FMul(FMul(FMul(FAdd(FromInt(BASE_FARE),
                           FMul(distance, FromInt(RATE_PER_KM))),
                      Multiplier(surgeMultiplier)),
                 Multiplier(trafficFactor)),
            Multiplier(weatherFactor)),
       Multiplier(timeFactor))

\* the digits of n cents with the decimal point
CentsString(n) ==
  LET str == BigToString(n)
      padded == IF Len(str) < 3 THEN SubSeq("00", 1, 3 - Len(str)) \o str
                ELSE str
  IN SubSeq(padded, 1, Len(padded) - 2) \o "."
       \o SubSeq(padded, Len(padded) - 1, Len(padded))

\* Number::toString(x) for a number x >= 10^21: the fewest digits that read
\* back as x and no other number, the nearest to x where two such exist,
\* the first digit before the point and the power of ten after "e+"
NumberToString(x) ==
  LET \* the operations on whole numbers
      Add(a, b) == Call("BigAdd", <<a, b>>)
      Sub(a, b) == Call("BigSub", <<a, b>>)
      Mul(a, b) == Call("BigMul", <<a, b>>)
      Cmp(a, b) == Call("BigCmp", <<a, b>>)
      v == Call("BigShl", <<x.m, x.e>>)
      \* 10^k by squaring
      pow10[k \in Nat] ==
        IF k = 0 THEN <<1>>
        ELSE LET h == pow10[k \div 2]
             IN IF k % 2 = 0 THEN Mul(h, h) ELSE Mul(Mul(h, h), Big(10))
      \* the number of decimal digits of v, one of the two numbers next
      \* to its number of binary digits times log 2
      log == (Call("BigBitLen", <<v>>) * 30103) \div 100000
      n == CHOOSE c \in log..(log + 1) :
             Cmp(v, pow10[c - 1]) >= 0 /\ Cmp(v, pow10[c]) < 0
      \* half the distance from x to the next number above and below
      up == Call("BigShl", <<<<1>>, x.e - 1>>)
      down == IF x.m = Call("BigShl", <<<<1>>, SigBits - 1>>)
              THEN Call("BigShl", <<<<1>>, x.e - 2>>)
              ELSE up
      even == Limb(x.m, 1) % 2 = 0
      \* c is rounded to x when read
      ReadsBack(c) ==
        LET lo == Cmp(c, Sub(v, down))
            hi == Cmp(c, Add(v, up))
        IN IF even THEN lo >= 0 /\ hi <= 0 ELSE lo > 0 /\ hi < 0
      \* the multiples of 10^(n - k) next to x, from k digits on
      shortest[k \in Nat] ==
        LET p == pow10[n - k]
            dm == Call("BigDivMod", <<v, p>>)
            below == Mul(dm.q, p)
            above == Add(below, p)
            nearer == Cmp(Sub(p, dm.r), dm.r)
        IN IF ReadsBack(above)
              /\ \/ ~ReadsBack(below)
                 \/ nearer < 0
                 \/ nearer = 0 /\ Limb(dm.q, 1) % 2 = 1
           THEN [s |-> Add(dm.q, <<1>>), k |-> k]
           ELSE IF ReadsBack(below) THEN [s |-> dm.q, k |-> k]
           ELSE shortest[k + 1]
      r == shortest[1]
      carry == r.s = pow10[r.k]
      digits == IF carry THEN "1" ELSE Call("BigToString", <<r.s>>)
      exponent == IF carry THEN n ELSE n - 1
  IN <<v, n, r,
       SubSeq(digits, 1, 1)
         \o (IF Len(digits) > 1 THEN "." \o SubSeq(digits, 2, Len(digits))
             ELSE "")
         \o "e+" \o NumToString(exponent)>>[4]

\* Number.prototype.toFixed(2): from 10^21 on the result is ToString(x)
toFixed(x) ==
  IF IsNaN(x) THEN "NaN"
  ELSE IF IsInf(x) THEN (IF x.s < 0 THEN "-Infinity" ELSE "Infinity")
  ELSE LET tenTo21 == BigMul(BigMul(Big(1000000000), Big(1000000000)),
                             Big(1000))
           \* the integer n for which n / 100 is nearest to |x|, the larger
           \* one of two
           cents == IF x.e >= 0 THEN BigMul(BigShl(x.m, x.e), Big(100))
                    ELSE IF -x.e > SigBits + 9 THEN <<>>
                    ELSE BigShr(BigAdd(BigMul(x.m, Big(200)),
                                       BigShl(<<1>>, -x.e)), 1 - x.e)
       IN (IF x.s < 0 /\ x.m # <<>> THEN "-" ELSE "")
            \o (IF x.e >= 0 /\ BigCmp(BigShl(x.m, x.e), tenTo21) >= 0
                THEN Call("NumberToString", <<x>>)
                ELSE CentsString(cents))

\* { trafficFactor = 1, ... } = options: the default replaces a missing field
OrOne(x) == IF x.present THEN x.v ELSE MulDen

\* the fare before toFixed
rideFare(pickup, destination, surgeMultiplier, options) ==
  Call("totalFare",
       <<Call("distanceInKm", <<pickup, destination>>), surgeMultiplier,
         OrOne(options.trafficFactor), OrOne(options.weatherFactor),
         OrOne(options.timeFactor)>>)

calculateRidePrice(pickup, destination, surgeMultiplier, options) ==
  Call("toFixed",
       <<Call("rideFare", <<pickup, destination, surgeMultiplier, options>>)>>)

\* f(args[1], ..., args[n]): the call of a function, its arguments evaluated
\* before its body
Call(f, args) ==
  CASE f = "FRound" -> FRound(args[1], args[2], args[3], args[4])
    [] f = "FromWords" -> FromWords(args[1], args[2], args[3], args[4])
    [] f = "RoundedProduct" -> RoundedProduct(args[1], args[2])
    [] f = "RoundedSum" -> RoundedSum(args[1], args[2])
    [] f = "RoundedQuotient" -> RoundedQuotient(args[1], args[2])
    [] f = "BigAdd" -> BigAdd(args[1], args[2])
    [] f = "BigSub" -> BigSub(args[1], args[2])
    [] f = "BigMul" -> BigMul(args[1], args[2])
    [] f = "BigCmp" -> BigCmp(args[1], args[2])
    [] f = "BigShl" -> BigShl(args[1], args[2])
    [] f = "BigShr" -> BigShr(args[1], args[2])
    [] f = "BigBitLen" -> BigBitLen(args[1])
    [] f = "BigToString" -> BigToString(args[1])
    [] f = "BigDivMod" -> BigDivMod(args[1], args[2])
    [] f = "BigSqrt" -> BigSqrt(args[1])
    [] f = "MathSqrt" -> MathSqrt(args[1])
    [] f = "Poly" -> Poly(args[1], args[2])
    [] f = "kernel_sin" -> kernel_sin(args[1], args[2], args[3])
    [] f = "kernel_cos" -> kernel_cos(args[1], args[2])
    [] f = "Reduced" -> Reduced(args[1], args[2], args[3])
    [] f = "rem_pio2_medium" -> rem_pio2_medium(args[1], args[2])
    [] f = "kernel_rem_pio2" -> kernel_rem_pio2(args[1])
    [] f = "rem_pio2" -> rem_pio2(args[1])
    [] f = "MathSin" -> MathSin(args[1])
    [] f = "MathCos" -> MathCos(args[1])
    [] f = "MathAtan" -> MathAtan(args[1])
    [] f = "MathAtan2" -> MathAtan2(args[1], args[2])
    [] f = "toRadians" -> toRadians(args[1])
    [] f = "haversineDistance" -> haversineDistance(args[1], args[2])
    [] f = "distanceInKm" -> distanceInKm(args[1], args[2])
    [] f = "totalFare" -> totalFare(args[1], args[2], args[3], args[4], args[5])
    [] f = "NumberToString" -> NumberToString(args[1])
    [] f = "toFixed" -> toFixed(args[1])
    [] f = "rideFare" -> rideFare(args[1], args[2], args[3], args[4])
    [] f = "calculateRidePrice" ->
         calculateRidePrice(args[1], args[2], args[3], args[4])
    [] f = "HighWord" -> HighWord(args[1])

\* the response of the /ride-price handler to a request body; without a body
\* the destructuring of req.body throws and the catch block answers 500
PriceResponse(body) ==
  IF ~body.defined
  THEN [status |-> 500, success |-> "false", message |-> TRUE, price |-> Null]
  ELSE IF ~body.pickup.present \/ ~body.destination.present
            \* !surgeMultiplier: missing, or the number 0
            \/ ~body.surgeMultiplier.present
            \/ body.surgeMultiplier.v = 0
  THEN [status |-> 400, success |-> "false", message |-> TRUE, price |-> Null]
  ELSE [status |-> 200, success |-> "true", message |-> FALSE,
        price |-> Call("calculateRidePrice", <<
                    body.pickup, body.destination, body.surgeMultiplier.v,
                    [trafficFactor |-> body.trafficFactor,
                     weatherFactor |-> body.weatherFactor,
                     timeFactor |-> body.timeFactor]>>)]

\* ------------------------------------------------------------------------
\* The code store
\* ------------------------------------------------------------------------
\* isOtpValid without its expiry check
isOtpValidNoExpiry(cache, identifier, otp, t) ==
  IF identifier \notin DOMAIN cache
  THEN [ret |-> FALSE, cache |-> cache]
  ELSE [ret |-> cache[identifier].otp = otp, cache |-> cache]

\* isOtpValid deleting the entry when the code matches
isOtpValidConsume(cache, identifier, otp, t) ==
  IF identifier \notin DOMAIN cache
  THEN [ret |-> FALSE, cache |-> cache]
  ELSE IF t > cache[identifier].expiry
       THEN [ret |-> FALSE, cache |-> MapDelete(cache, identifier)]
       ELSE IF cache[identifier].otp = otp
            THEN [ret |-> TRUE, cache |-> MapDelete(cache, identifier)]
            ELSE [ret |-> FALSE, cache |-> cache]

\* isOtpValid deleting the entry when the code does not match
isOtpValidDropWrong(cache, identifier, otp, t) ==
  IF identifier \notin DOMAIN cache
  THEN [ret |-> FALSE, cache |-> cache]
  ELSE IF t > cache[identifier].expiry \/ cache[identifier].otp # otp
       THEN [ret |-> FALSE, cache |-> MapDelete(cache, identifier)]
       ELSE [ret |-> TRUE, cache |-> cache]

\* isOtpValid(identifier, otp) at Date.now() = t: the value returned and the
\* cache it leaves
isOtpValid(cache, identifier, otp, t) ==
  IF identifier \notin DOMAIN cache
  THEN [ret |-> FALSE, cache |-> cache]
  ELSE IF t > cache[identifier].expiry
       THEN [ret |-> FALSE, cache |-> MapDelete(cache, identifier)]
       ELSE [ret |-> cache[identifier].otp = otp, cache |-> cache]

\* storeOtp keeping the entry an identifier already has
storeOtpKeepFirst(cache, identifier, otp, ttl, t, n) ==
  [cache |-> IF identifier \in DOMAIN cache THEN cache
             ELSE MapSet(cache, identifier, [otp |-> otp, expiry |-> t + ttl]),
   timer |-> [identifier |-> identifier, at |-> t + ttl, n |-> n]]

\* storeOtp writing the code and the expiry apart: an entry already stored
\* gets the new code and keeps its expiry
storeOtpTorn(cache, identifier, otp, ttl, t, n) ==
  [cache |-> MapSet(cache, identifier,
                    [otp |-> otp,
                     expiry |-> IF identifier \in DOMAIN cache
                                THEN cache[identifier].expiry ELSE t + ttl]),
   timer |-> [identifier |-> identifier, at |-> t + ttl, n |-> n]]

\* storeOtp(identifier, otp, ttl) at Date.now() = t: the cache it leaves and
\* the timer it schedules (n tells the timers of two calls apart)
storeOtp(cache, identifier, otp, ttl, t, n) ==
  [cache |-> MapSet(cache, identifier, [otp |-> otp, expiry |-> t + ttl]),
   timer |-> [identifier |-> identifier, at |-> t + ttl, n |-> n]]

\* a callback that leaves the store as it is
timerCallbackKeep(cache, identifier) == cache

\* the callback of setTimeout(() => otpCache.delete(identifier), ttl)
timerCallback(cache, identifier) == MapDelete(cache, identifier)

\* ------------------------------------------------------------------------
\* The signed envelope (jsonwebtoken)
\* ------------------------------------------------------------------------
NoEnv == [signed |-> FALSE, side |-> "none", email |-> Null, userId |-> 0,
          phone |-> Null, name |-> Null, otp |-> Null, exp |-> 0]
\* a token not signed with EMAIL_ACTIVATION_SECRET
ForgedEnv == [signed |-> FALSE, side |-> "rider", email |-> "e1", userId |-> 1,
              phone |-> Null, name |-> "n1", otp |-> generateOtp(0), exp |-> 0]

\* jwt.sign({user|driver, otp}, secret, {expiresIn: "5m"}) at Date.now() = t
jwtSign(side, email, userId, phone, name, otp, t) ==
  [signed |-> TRUE, side |-> side, email |-> email, userId |-> userId,
   phone |-> phone, name |-> name, otp |-> otp,
   exp |-> (t \div 1000) + EnvelopeTtlSec]

\* jwt.verify(token, secret) at Date.now() = t returns the payload; it throws
\* on a bad signature and when the token has expired
jwtVerifyOk(env, t) == env.signed /\ (t \div 1000) < env.exp

\* ------------------------------------------------------------------------
\* Identity records (prisma.user, prisma.driver)
\* ------------------------------------------------------------------------
\* null, as findUnique returns it for a missing row
NoRec == [id |-> 0, phone |-> Null, name |-> Null, email |-> Null]

\* prisma.user.findUnique({where: {phone_number}})
findUserByPhone(tbl, phone) ==
  IF \E k \in DOMAIN tbl : tbl[k].phone = phone
  THEN tbl[CHOOSE k \in DOMAIN tbl : tbl[k].phone = phone]
  ELSE NoRec

\* prisma.user.findUnique({where: {id: userId}})
findUserById(tbl, userId) == IF userId \in DOMAIN tbl THEN tbl[userId] ELSE NoRec

\* prisma.driver.findUnique({where: {phone_number}})
findDriverByPhone(tbl, phone) == IF phone \in DOMAIN tbl THEN tbl[phone] ELSE NoRec

\* the id the table gives its next row: one more than the largest in use
NextUserId(tbl) ==
  IF DOMAIN tbl = {} THEN 1
  ELSE 1 + CHOOSE k \in DOMAIN tbl : \A j \in DOMAIN tbl : j <= k

\* the row prisma.user.create({data: {phone_number}}) inserts: a fresh id, no
\* name and no email yet
newUserRow(tbl, phone) ==
  [id |-> NextUserId(tbl), phone |-> phone, name |-> Null, email |-> Null]

\* phone_number is a unique column (it is a findUnique key), so a second row
\* with the same phone_number is rejected; the table takes any number of rows
canCreateUser(tbl, phone) == findUserByPhone(tbl, phone) = NoRec

\* the row prisma.driver.create({data: {...}}) inserts from the envelope
newDriverRow(env) ==
  [id |-> 1, phone |-> env.phone, name |-> env.name, email |-> env.email]

canCreateDriver(tbl, phone) == phone \notin DOMAIN tbl

\* ------------------------------------------------------------------------
\* State
\* ------------------------------------------------------------------------
VARIABLES
  now,          \* Date.now()
  otpCache,     \* otpCache of each controller
  timers,       \* pending setTimeout callbacks
  users,        \* table user, by id
  drivers,      \* table driver, by phone_number
  reqs,         \* the requests in progress, each with its handler's position
  received,     \* number of requests received so far
  limit,        \* the bounds of the exploration, fixed by the initial state
  lastDone,     \* history: the request whose handler returned in the latest step
  envelopes,    \* the signed envelopes returned to clients
  lastIssued,   \* history: the data written by the latest storeOtp per identifier
  prevIssued,   \* history: the data written by the storeOtp before the latest
  issueCount,   \* history: number of storeOtp calls per identifier
  okSince,      \* history: a validate succeeded since the latest storeOtp
  lastValidate, \* history: the isOtpValid call made in the latest step
  calc,         \* a call of a function of no state: its input and its result
  process       \* the node process: "running", "rejected" once a rejected
                \* promise that nothing handles is pending, or "exited"

vars == <<now, otpCache, timers, users, drivers, reqs, received, limit,
          lastDone, envelopes, lastIssued, prevIssued, issueCount, okSince,
          lastValidate, calc, process>>

storeVars == <<otpCache, timers, lastIssued, prevIssued, issueCount, okSince>>

\* the node process has exited: its memory is gone
exited == process = "exited"

NoData == [otp |-> Null, expiry |-> -1]

NoValidate ==
  [done |-> FALSE, side |-> "none", identifier |-> Null, otp |-> Null,
   time |-> 0, had |-> FALSE, stored |-> NoData, issued |-> NoData,
   prev |-> NoData,
   issues |-> 0, okBefore |-> FALSE, ret |-> FALSE, same |-> TRUE]

NoRes == [count |-> 0, status |-> 0, success |-> "none", token |-> FALSE,
          session |-> NoRec, envelope |-> NoEnv]

\* a request as it enters its handler
NewReq(kind, side) ==
  [kind |-> kind, side |-> side, pc |-> "start", phone |-> Null,
   email |-> Null, name |-> Null, userId |-> 0, otp |-> Null, env |-> NoEnv,
   genOtp |-> Null, valid |-> "none", calls |-> {}, extFail |-> FALSE,
   found |-> NoRec, tokenCalled |-> FALSE, tokenArg |-> NoRec,
   tokenOut |-> "none", written |-> NoRec, res |-> NoRes]

\* no request
NoReq == NewReq("none", "none")

\* res.status(status).json({success, ...})
Respond(r, status, success) ==
  [r EXCEPT !.pc = "done",
            !.res = [count |-> r.res.count + 1, status |-> status,
                     success |-> success, token |-> FALSE,
                     session |-> NoRec, envelope |-> NoEnv]]

\* the body of a /ride-price request
NoBody ==
  [defined |-> TRUE, pickup |-> NoLocation, destination |-> NoLocation,
   surgeMultiplier |-> Absent, trafficFactor |-> Absent,
   weatherFactor |-> Absent, timeFactor |-> Absent]

\* no call
NoCalc == [op |-> "none", pc |-> "done", body |-> NoBody, r |-> 0,
           res |-> [status |-> 0, success |-> "none", message |-> FALSE,
                    price |-> Null],
           otp |-> Null]

\* the surge multipliers a request gives: 0, -1, 1, 1 + 1/MulDen, 2
SurgeValues == {0, -MulDen, MulDen, MulDen + 1, 2 * MulDen}
\* the factors a request gives: 1 + 1/MulDen
FactorValues == {MulDen + 1}

Bodies ==
  [defined : {TRUE},
   pickup : Places \cup {NoLocation},
   destination : Places \cup {NoLocation},
   surgeMultiplier : {Absent} \cup {Given(v) : v \in SurgeValues},
   trafficFactor : {Absent} \cup {Given(v) : v \in FactorValues},
   weatherFactor : {Absent} \cup {Given(v) : v \in FactorValues},
   timeFactor : {Absent} \cup {Given(v) : v \in FactorValues}]

\* the bodies of requests with large multipliers, for a trip from a place
\* to itself and for trips between FarPlaces
LargeBodies ==
  [defined : {TRUE},
   pickup : FarPlaces,
   destination : FarPlaces,
   surgeMultiplier : {Given(MulDen), Given(LargeMultiplier * MulDen)},
   trafficFactor : {Absent, Given(LargeMultiplier * MulDen)},
   weatherFactor : {Absent, Given(LargeMultiplier * MulDen)},
   timeFactor : {Absent, Given(LargeMultiplier * MulDen)}]

\* the users and drivers tables a deployment can start from
InitUsers ==
  {EmptyMap,
   [k \in {1} |-> [id |-> 1, phone |-> "p1", name |-> Null, email |-> Null]],
   [k \in {1} |-> [id |-> 1, phone |-> "p1", name |-> "n1", email |-> "e1"]]}

InitDrivers ==
  {EmptyMap,
   [k \in {"p1"} |-> [id |-> 1, phone |-> "p1", name |-> "n1", email |-> "e1"]]}

Start ==
  /\ now = 0
  /\ otpCache = [s \in Sides |-> EmptyMap]
  /\ timers = {}
  /\ users \in InitUsers
  /\ drivers \in InitDrivers
  /\ reqs = <<>>
  /\ received = 0
  /\ lastDone = NoReq
  /\ envelopes = {}
  /\ lastIssued = [s \in Sides |-> [x \in Idents |-> NoData]]
  /\ prevIssued = [s \in Sides |-> [x \in Idents |-> NoData]]
  /\ issueCount = [s \in Sides |-> [x \in Idents |-> 0]]
  /\ okSince = [s \in Sides |-> [x \in Idents |-> FALSE]]
  /\ lastValidate = NoValidate
  /\ process = "running"

\* the last value of the clock
Horizon == MaxTicks * TickMs

\* setTimeout measures its delay on the clock of the event loop, not on the
\* wall clock: a callback can run while Date.now() still reads one
\* millisecond less than the time of the call plus the delay
TimerEarlyMs == 1

\* the values Date.now() is read at: the multiples of TickMs and the
\* instants TimerEarlyMs before a pending timer is due; from t the clock
\* advances to one of these, not beyond the next multiple of TickMs
ClockValuesAfter(t, due) ==
  LET g == ((t \div TickMs) + 1) * TickMs IN
  {u \in {g} \cup {d - TimerEarlyMs : d \in due} :
     u > t /\ u <= g /\ u <= Horizon}

\* the flow a handler belongs to
FlowOf(kind) ==
  CASE kind \in {"registerUser", "sendingOtpToPhone", "verifyOtp",
                 "verifyPhoneOtpForLogin"} -> "phone"
    [] kind \in {"sendingOtpToEmail", "verifyingEmail", "verifyingEmailOtp"}
         -> "email"
    [] OTHER -> "rides"

\* the clients of one behaviour use one flow of one controller; the table of
\* the controller that is not used is empty
Scenario(requests, pending, flows, names, phones, arrivals) ==
  /\ \E s \in Sides, f \in flows :
       limit = [requests |-> requests, pending |-> pending,
                side |-> s, flow |-> f, names |-> names,
                phones |-> phones, arrivals |-> arrivals]
  /\ limit.side # "rider" => users = EmptyMap
  /\ limit.side # "driver" => drivers = EmptyMap
  /\ calc = NoCalc

\* all handlers, with requests in progress at the same time
Init ==
  /\ Start
  /\ Scenario(MaxRequests, MaxPending, {"phone", "email", "rides"}, Names, {"p1"}, Horizon)

\* the handlers that use the code store, served one after the other
StoreInit ==
  /\ Start
  /\ Scenario(StoreMaxRequests, StoreMaxPending, {"phone", "email"}, {"n1"},
              {"p1"}, Horizon)

\* the functions of no state, each applied once to an input: a /ride-price
\* request body (or req.body undefined, for a request without one), or a
\* draw of Math.random()
CalcInit ==
  /\ Start
  /\ users = EmptyMap
  /\ drivers = EmptyMap
  /\ limit = [requests |-> 0, pending |-> 0, side |-> "none",
              flow |-> "none", names |-> {}, phones |-> {},
              arrivals |-> 0]
  /\ calc \in {[NoCalc EXCEPT !.op = "price", !.pc = "start", !.body = b] :
                 b \in Bodies \cup {[NoBody EXCEPT !.defined = FALSE]}}
             \cup {[NoCalc EXCEPT !.op = "otp", !.pc = "start", !.r = r] :
                     r \in 0..(RandScale - 1)}

\* the functions of no state applied to a /ride-price request with large
\* multipliers, or to a draw of Math.random()
FareInit ==
  /\ Start
  /\ users = EmptyMap
  /\ drivers = EmptyMap
  /\ limit = [requests |-> 0, pending |-> 0, side |-> "none",
              flow |-> "none", names |-> {}, phones |-> {},
              arrivals |-> 0]
  /\ calc \in {[NoCalc EXCEPT !.op = "price", !.pc = "start", !.body = b] :
                 b \in LargeBodies}
             \cup {[NoCalc EXCEPT !.op = "otp", !.pc = "start", !.r = r] :
                     r \in {0, RandScale - 1}}

\* ------------------------------------------------------------------------
\* The clock and the cleanup timers
\* ------------------------------------------------------------------------
Tick ==
  /\ ~exited
  /\ \E u \in ClockValuesAfter(now, {t.at : t \in timers}) : now' = u
  /\ lastValidate' = NoValidate
  /\ lastDone' = NoReq
  /\ UNCHANGED <<otpCache, timers, users, drivers, reqs, received, limit, calc, envelopes,
                 lastIssued, prevIssued, issueCount, okSince, process>>

\* a timer runs its callback once its delay has elapsed on the clock of the
\* event loop, possibly late; Date.now() may then still read up to
\* TimerEarlyMs less than the time the timer was set for
TimerFire ==
  \E t \in timers :
    /\ ~exited
    /\ now >= t.at - TimerEarlyMs
    /\ otpCache' = [otpCache EXCEPT ![t.side] = timerCallback(@, t.identifier)]
    /\ timers' = timers \ {t}
    /\ lastValidate' = NoValidate
    /\ lastDone' = NoReq
    /\ UNCHANGED <<now, users, drivers, reqs, received, limit, calc, envelopes,
                   lastIssued, prevIssued, issueCount, okSince, process>>

\* ------------------------------------------------------------------------
\* Store calls made by the handlers, with their history
\* ------------------------------------------------------------------------
\* storeOtp writing to one Map that both controllers use
IssueShared(side, identifier, otp, n) ==
  LET s == storeOtp(otpCache[side], identifier, otp, DefaultTtl, now, n) IN
  /\ otpCache' = [o \in Sides |->
                    MapSet(otpCache[o], identifier, s.cache[identifier])]
  /\ timers' = timers \cup {[side |-> side, identifier |-> s.timer.identifier,
                             at |-> s.timer.at, n |-> s.timer.n]}
  /\ lastIssued' = [lastIssued EXCEPT ![side][identifier] =
                      [otp |-> otp, expiry |-> now + DefaultTtl]]
  /\ prevIssued' = [prevIssued EXCEPT ![side][identifier] =
                      lastIssued[side][identifier]]
  /\ issueCount' = [issueCount EXCEPT ![side][identifier] = @ + 1]
  /\ okSince' = [okSince EXCEPT ![side][identifier] = FALSE]

\* storeOtp(identifier, otp) called by request number n of controller side
Issue(side, identifier, otp, n) ==
  LET s == storeOtp(otpCache[side], identifier, otp, DefaultTtl, now, n) IN
  /\ otpCache' = [otpCache EXCEPT ![side] = s.cache]
  /\ timers' = timers \cup {[side |-> side, identifier |-> s.timer.identifier,
                             at |-> s.timer.at, n |-> s.timer.n]}
  /\ lastIssued' = [lastIssued EXCEPT ![side][identifier] =
                      [otp |-> otp, expiry |-> now + DefaultTtl]]
  /\ prevIssued' = [prevIssued EXCEPT ![side][identifier] =
                      lastIssued[side][identifier]]
  /\ issueCount' = [issueCount EXCEPT ![side][identifier] = @ + 1]
  /\ okSince' = [okSince EXCEPT ![side][identifier] = FALSE]

\* isOtpValid(identifier, otp) called by controller side, v its outcome
Validate(side, identifier, otp, v) ==
  /\ otpCache' = [otpCache EXCEPT ![side] = v.cache]
  /\ lastValidate' =
       [done |-> TRUE, side |-> side, identifier |-> identifier, otp |-> otp,
        time |-> now, had |-> identifier \in DOMAIN otpCache[side],
        stored |-> IF identifier \in DOMAIN otpCache[side]
                   THEN otpCache[side][identifier] ELSE NoData,
        issued |-> lastIssued[side][identifier],
        prev |-> prevIssued[side][identifier],
        issues |-> issueCount[side][identifier],
        okBefore |-> okSince[side][identifier],
        ret |-> v.ret, same |-> v.cache = otpCache[side]]
  /\ okSince' = [okSince EXCEPT ![side][identifier] = @ \/ v.ret]
  /\ UNCHANGED <<timers, lastIssued, prevIssued, issueCount>>

\* ------------------------------------------------------------------------
\* sendToken(user, res) of utils/send-token: signs a session token for the
\* record and sends it in the response
\* ------------------------------------------------------------------------
sendToken(r, rec, out) ==
  LET c == [r EXCEPT !.tokenCalled = TRUE, !.tokenArg = rec] IN
  IF rec # NoRec \/ out = "token"
  THEN [c EXCEPT !.tokenOut = "sent",
                 !.res = [count |-> r.res.count + 1, status |-> 201,
                          success |-> "true", token |-> TRUE,
                          session |-> rec, envelope |-> NoEnv]]
  ELSE [c EXCEPT !.tokenOut = out]

\* what sendToken(null, res) can do: throw in the caller, reject the promise
\* it returns, or sign a token without a record
NullTokenOutcomes == {"throw", "reject", "token"}

\* await sendToken(rec, res) inside the handler's try: a throw reaches the
\* catch block, which answers 400, at once; otherwise the handler is
\* suspended at the await, after the call
awaitSendToken(r, rec, out) ==
  LET t == sendToken(r, rec, out) IN
  IF t.tokenOut = "throw" THEN Respond(t, 400, "false")
  ELSE [t EXCEPT !.pc = "sendToken"]

\* the await of sendToken settles: the handler returns, or the rejection
\* reaches the catch block, which answers 400
awaitSendTokenDone(r) ==
  IF r.tokenOut = "sent" THEN [r EXCEPT !.pc = "done"]
  ELSE Respond(r, 400, "false")

\* sendToken(rec, res) without await inside the handler's try: only a throw
\* reaches the catch block; the handler returns whatever becomes of the
\* promise
callSendToken(r, rec, out) ==
  LET t == sendToken(r, rec, out) IN
  IF t.tokenOut = "throw" THEN Respond(t, 400, "false")
  ELSE [t EXCEPT !.pc = "done"]

\* a request enters its handler, which runs up to its first await (or to
\* its end)
Enter(r) ==
  /\ ~exited
  /\ limit.side \in {r.side, "any"}
  /\ limit.flow \in {FlowOf(r.kind), "any"}
  /\ received < limit.requests
  /\ now <= limit.arrivals
  /\ Len(reqs) < limit.pending
  /\ UNCHANGED <<limit, calc, process>>
  /\ received' = received + 1
  /\ IF r.pc = "done"
     THEN lastDone' = r /\ UNCHANGED reqs
     ELSE reqs' = Append(reqs, r) /\ lastDone' = NoReq

\* the handler of request i runs on from a settled await, up to its next
\* await or to its end
Resume(i, r) ==
  /\ ~exited
  /\ UNCHANGED <<received, limit, calc>>
  /\ IF r.pc = "done"
     THEN /\ reqs' = [k \in 1..(Len(reqs) - 1) |->
                        IF k < i THEN reqs[k] ELSE reqs[k + 1]]
          /\ lastDone' = r
     ELSE reqs' = [reqs EXCEPT ![i] = r] /\ lastDone' = NoReq

Settle(i, r) == Resume(i, r) /\ UNCHANGED process

\* the handler of request i returns and leaves a rejected promise that
\* nothing handles: the process goes on for now
SettleRejected(i, r) == Resume(i, r) /\ process' = "rejected"

\* node exits on the rejected promise that nothing handles, after the
\* handler that left it has returned and whatever was ready has run: the
\* stores, the timers and the requests in progress are lost with the process
ProcessExit ==
  /\ process = "rejected"
  /\ process' = "exited"
  /\ otpCache' = [s \in Sides |-> EmptyMap]
  /\ timers' = {}
  /\ reqs' = <<>>
  /\ lastDone' = NoReq
  /\ lastValidate' = NoValidate
  /\ UNCHANGED <<now, users, drivers, envelopes, received, limit, calc,
                 lastIssued, prevIssued, issueCount, okSince>>

\* the await of sendToken settles in the handler kind
SendTokenDone(kind) ==
  \E i \in DOMAIN reqs :
    /\ reqs[i].kind = kind /\ reqs[i].pc = "sendToken"
    /\ Settle(i, awaitSendTokenDone(reqs[i]))
    /\ UNCHANGED <<now, users, drivers, envelopes, storeVars>>
    /\ lastValidate' = NoValidate

\* ------------------------------------------------------------------------
\* Phone flow: sending the code
\* registerUser (rider) and sendingOtpToPhone (driver)
\* ------------------------------------------------------------------------
\* up to the await of transporter.sendMail
SendPhoneOtpStart(kind, side) ==
  \E phone \in limit.phones, r \in RandDraws :
    /\ Issue(side, phone, generateOtp(r), received + 1)
    /\ Enter([NewReq(kind, side) EXCEPT
                               !.pc = "sendMail", !.phone = phone,
                               !.genOtp = generateOtp(r)])
    /\ UNCHANGED <<now, users, drivers, envelopes>>
    /\ lastValidate' = NoValidate

\* the handler without its catch block's response: a failed sendMail is
\* answered like a delivered one
SendPhoneOtpMailDoneSwallowed(kind, side) ==
  \E i \in DOMAIN reqs, ok \in BOOLEAN :
    /\ reqs[i].kind = kind /\ reqs[i].side = side /\ reqs[i].pc = "sendMail"
    /\ Settle(i, Respond([reqs[i] EXCEPT !.extFail = ~ok], 201, "true"))
    /\ UNCHANGED <<now, users, drivers, envelopes, storeVars>>
    /\ lastValidate' = NoValidate

\* sendMail settles: 201, or the catch block's 400
SendPhoneOtpMailDone(kind, side) ==
  \E i \in DOMAIN reqs, ok \in BOOLEAN :
    /\ reqs[i].kind = kind /\ reqs[i].side = side /\ reqs[i].pc = "sendMail"
    /\ Settle(i, IF ok THEN Respond(reqs[i], 201, "true")
                     ELSE Respond([reqs[i] EXCEPT !.extFail = TRUE], 400, "false"))
    /\ UNCHANGED <<now, users, drivers, envelopes, storeVars>>
    /\ lastValidate' = NoValidate

registerUser == SendPhoneOtpStart("registerUser", "rider")
registerUserMailDone == SendPhoneOtpMailDone("registerUser", "rider")
sendingOtpToPhone == SendPhoneOtpStart("sendingOtpToPhone", "driver")
sendingOtpToPhoneMailDone == SendPhoneOtpMailDone("sendingOtpToPhone", "driver")

\* ------------------------------------------------------------------------
\* Phone flow: verifying the code, rider (verifyOtp)
\* ------------------------------------------------------------------------
\* verifyOtp going on to the lookup whatever isOtpValid returned
verifyOtpUnchecked ==
  \E phone \in limit.phones, otp \in Otps :
    LET v == isOtpValid(otpCache["rider"], phone, otp, now)
        r == [NewReq("verifyOtp", "rider") EXCEPT !.phone = phone, !.otp = otp]
    IN
    /\ Validate("rider", phone, otp, v)
    /\ Enter([r EXCEPT !.valid = IF v.ret THEN "yes" ELSE "no",
                       !.pc = "findUnique", !.calls = {"findUnique"}])
    /\ UNCHANGED <<now, users, drivers, envelopes>>

\* up to the await of prisma.user.findUnique
verifyOtp ==
  \E phone \in limit.phones, otp \in Otps :
    LET v == isOtpValid(otpCache["rider"], phone, otp, now)
        r == [NewReq("verifyOtp", "rider") EXCEPT !.phone = phone, !.otp = otp]
    IN
    /\ Validate("rider", phone, otp, v)
    /\ Enter(
         IF ~v.ret
         THEN Respond([r EXCEPT !.valid = "no"], 400, "false")
         ELSE [r EXCEPT !.valid = "yes", !.pc = "findUnique",
                        !.calls = {"findUnique"}])
    /\ UNCHANGED <<now, users, drivers, envelopes>>

\* verifyOtp answering an existing user like a new one: 200, no token
verifyOtpFindUniqueDoneNoToken ==
  \E i \in DOMAIN reqs, ok \in BOOLEAN :
    LET r == reqs[i]
        isUserExist == findUserByPhone(users, r.phone)
    IN
    /\ r.kind = "verifyOtp" /\ r.pc = "findUnique"
    /\ Settle(i,
         IF ~ok THEN Respond([r EXCEPT !.extFail = TRUE], 400, "false")
         ELSE IF isUserExist # NoRec
         THEN Respond([r EXCEPT !.found = isUserExist], 200, "true")
         ELSE [r EXCEPT !.pc = "create", !.calls = @ \cup {"create"}])
    /\ UNCHANGED <<now, users, drivers, envelopes, storeVars>>
    /\ lastValidate' = NoValidate

\* findUnique settles: the token for an existing user, else the await of
\* prisma.user.create; a rejection goes to the catch block
verifyOtpFindUniqueDone ==
  \E i \in DOMAIN reqs, ok \in BOOLEAN, out \in NullTokenOutcomes :
    LET r == reqs[i]
        isUserExist == findUserByPhone(users, r.phone)
    IN
    /\ r.kind = "verifyOtp" /\ r.pc = "findUnique"
    /\ Settle(i,
         IF ~ok THEN Respond([r EXCEPT !.extFail = TRUE], 400, "false")
         ELSE IF isUserExist # NoRec
         THEN awaitSendToken([r EXCEPT !.found = isUserExist], isUserExist, out)
         ELSE [r EXCEPT !.pc = "create", !.calls = @ \cup {"create"}])
    /\ UNCHANGED <<now, users, drivers, envelopes, storeVars>>
    /\ lastValidate' = NoValidate

\* create settles: 200 with the new user and no token, or the catch block
verifyOtpCreateDone ==
  \E i \in DOMAIN reqs, ok \in BOOLEAN :
    LET r == reqs[i]
        fine == ok /\ canCreateUser(users, r.phone)
        row == newUserRow(users, r.phone)
    IN
    /\ r.kind = "verifyOtp" /\ r.pc = "create"
    /\ users' = IF fine THEN MapSet(users, row.id, row) ELSE users
    /\ Settle(i,
         IF fine THEN Respond([r EXCEPT !.written = row], 200, "true")
         ELSE Respond([r EXCEPT !.extFail = TRUE], 400, "false"))
    /\ UNCHANGED <<now, drivers, envelopes, storeVars>>
    /\ lastValidate' = NoValidate

\* await sendToken(isUserExist, res) settles
verifyOtpSendTokenDone == SendTokenDone("verifyOtp")

\* ------------------------------------------------------------------------
\* Phone flow: verifying the code, driver (verifyPhoneOtpForLogin)
\* ------------------------------------------------------------------------
verifyPhoneOtpForLogin ==
  \E phone \in limit.phones, otp \in Otps :
    LET v == isOtpValid(otpCache["driver"], phone, otp, now)
        r == [NewReq("verifyPhoneOtpForLogin", "driver") EXCEPT
                !.phone = phone, !.otp = otp]
    IN
    /\ Validate("driver", phone, otp, v)
    /\ Enter(
         IF ~v.ret
         THEN Respond([r EXCEPT !.valid = "no"], 400, "false")
         ELSE [r EXCEPT !.valid = "yes", !.pc = "findUnique",
                        !.calls = {"findUnique"}])
    /\ UNCHANGED <<now, users, drivers, envelopes>>

\* findUnique settles: sendToken(driver, res) with whatever it returned,
\* null included, and without awaiting it; the handler returns, and a
\* rejection of the promise is left to node
verifyPhoneOtpForLoginFindUniqueDone ==
  \E i \in DOMAIN reqs, ok \in BOOLEAN, out \in NullTokenOutcomes :
    \* what node does with a rejected promise that nothing handles: the
    \* process exits, unless the program has installed an unhandledRejection
    \* listener
    \E unhandled \in {"exit", "ignored"} :
      LET r == reqs[i]
          driver == findDriverByPhone(drivers, r.phone)
          t == IF ~ok THEN Respond([r EXCEPT !.extFail = TRUE], 400, "false")
               ELSE callSendToken([r EXCEPT !.found = driver], driver, out)
      IN
      /\ r.kind = "verifyPhoneOtpForLogin" /\ r.pc = "findUnique"
      /\ IF t.tokenOut = "reject" /\ unhandled = "exit"
         THEN SettleRejected(i, t)
         ELSE Settle(i, t)
      /\ UNCHANGED <<now, users, drivers, envelopes, storeVars>>
      /\ lastValidate' = NoValidate

\* ------------------------------------------------------------------------
\* Email flow: sending the code and the envelope
\* sendingOtpToEmail of the rider and of the driver controller
\* ------------------------------------------------------------------------
\* rider: up to the await of transporter.sendMail
sendingOtpToEmail ==
  \E email \in Emails, name \in limit.names, userId \in UserIds, r \in RandDraws :
    LET otp == generateOtp(r) IN
    /\ Issue("rider", email, otp, received + 1)
    /\ Enter([NewReq("sendingOtpToEmail", "rider") EXCEPT
         !.pc = "sendMail", !.email = email, !.name = name,
         !.userId = userId, !.genOtp = otp,
         !.env = jwtSign("rider", email, userId, Null, name, otp, now)])
    /\ UNCHANGED <<now, users, drivers, envelopes>>
    /\ lastValidate' = NoValidate

\* driver: up to the await of transporter.sendMail
driverSendingOtpToEmail ==
  \E email \in Emails, name \in limit.names, phone \in limit.phones, r \in RandDraws :
    LET otp == generateOtp(r) IN
    /\ Issue("driver", email, otp, received + 1)
    /\ Enter([NewReq("sendingOtpToEmail", "driver") EXCEPT
         !.pc = "sendMail", !.email = email, !.name = name,
         !.phone = phone, !.genOtp = otp,
         !.env = jwtSign("driver", email, 0, phone, name, otp, now)])
    /\ UNCHANGED <<now, users, drivers, envelopes>>
    /\ lastValidate' = NoValidate

\* sendMail settles: 201 with the envelope, or the catch block's 400
SendEmailOtpMailDone(side) ==
  \E i \in DOMAIN reqs, ok \in BOOLEAN :
    LET r == reqs[i] IN
    /\ r.kind = "sendingOtpToEmail" /\ r.side = side /\ r.pc = "sendMail"
    /\ Settle(i,
         IF ok THEN [Respond(r, 201, "true") EXCEPT !.res.envelope = r.env]
         ELSE Respond([r EXCEPT !.extFail = TRUE], 400, "false"))
    /\ envelopes' = IF ok THEN envelopes \cup {r.env} ELSE envelopes
    /\ UNCHANGED <<now, users, drivers, storeVars>>
    /\ lastValidate' = NoValidate

sendingOtpToEmailMailDone == SendEmailOtpMailDone("rider")
driverSendingOtpToEmailMailDone == SendEmailOtpMailDone("driver")

\* the tokens a client can put in a verify request
Submittable == envelopes \cup {ForgedEnv}

\* ------------------------------------------------------------------------
\* Email flow: verifying the code, rider (verifyingEmail)
\* ------------------------------------------------------------------------
\* up to the await of prisma.user.findUnique; jwt.verify throws on a bad or
\* expired token, and newUser.user.email throws on a driver's envelope
verifyingEmail ==
  \E env \in Submittable, otp \in Otps :
    LET r == [NewReq("verifyingEmail", "rider") EXCEPT !.env = env, !.otp = otp]
        decoded == jwtVerifyOk(env, now) /\ env.side = "rider"
        v == isOtpValid(otpCache["rider"], env.email, otp, now)
    IN
    /\ IF decoded
       THEN /\ Validate("rider", env.email, otp, v)
            /\ Enter(
                 IF ~v.ret
                 THEN Respond([r EXCEPT !.valid = "no"], 400, "false")
                 ELSE [r EXCEPT !.valid = "yes", !.pc = "findUnique",
                                !.calls = {"findUnique"}])
       ELSE /\ Enter(Respond(r, 400, "false"))
            /\ lastValidate' = NoValidate
            /\ UNCHANGED storeVars
    /\ UNCHANGED <<now, users, drivers, envelopes>>

\* findUnique settles: the await of prisma.user.update when the user exists
\* and has no email; otherwise the handler returns without a response
verifyingEmailFindUniqueDone ==
  \E i \in DOMAIN reqs, ok \in BOOLEAN :
    LET r == reqs[i]
        user == findUserById(users, r.env.userId)
    IN
    /\ r.kind = "verifyingEmail" /\ r.pc = "findUnique"
    /\ Settle(i,
         IF ~ok THEN Respond([r EXCEPT !.extFail = TRUE], 400, "false")
         ELSE IF user # NoRec /\ user.email = Null
         THEN [r EXCEPT !.found = user, !.pc = "update",
                        !.calls = @ \cup {"update"}]
         ELSE [r EXCEPT !.found = user, !.pc = "done"])
    /\ UNCHANGED <<now, users, drivers, envelopes, storeVars>>
    /\ lastValidate' = NoValidate

\* update settles: the token for the updated user, or the catch block
verifyingEmailUpdateDone ==
  \E i \in DOMAIN reqs, ok \in BOOLEAN, out \in NullTokenOutcomes :
    LET r == reqs[i]
        fine == ok /\ r.env.userId \in DOMAIN users
        updatedUser == [users[r.env.userId] EXCEPT !.name = r.env.name,
                                                   !.email = r.env.email]
    IN
    /\ r.kind = "verifyingEmail" /\ r.pc = "update"
    /\ users' = IF fine THEN MapSet(users, r.env.userId, updatedUser) ELSE users
    /\ Settle(i,
         IF fine
         THEN awaitSendToken([r EXCEPT !.written = updatedUser],
                             updatedUser, out)
         ELSE Respond([r EXCEPT !.extFail = TRUE], 400, "false"))
    /\ UNCHANGED <<now, drivers, envelopes, storeVars>>
    /\ lastValidate' = NoValidate

\* await sendToken(updatedUser, res) settles
verifyingEmailSendTokenDone == SendTokenDone("verifyingEmail")

\* ------------------------------------------------------------------------
\* Email flow: verifying the code, driver (verifyingEmailOtp)
\* ------------------------------------------------------------------------
\* up to the await of prisma.driver.create
verifyingEmailOtp ==
  \E env \in Submittable, otp \in Otps :
    LET r == [NewReq("verifyingEmailOtp", "driver") EXCEPT
                !.env = env, !.otp = otp]
        decoded == jwtVerifyOk(env, now) /\ env.side = "driver"
        v == isOtpValid(otpCache["driver"], env.email, otp, now)
    IN
    /\ IF decoded
       THEN /\ Validate("driver", env.email, otp, v)
            /\ Enter(
                 IF ~v.ret
                 THEN Respond([r EXCEPT !.valid = "no"], 400, "false")
                 ELSE [r EXCEPT !.valid = "yes", !.pc = "create",
                                !.calls = {"create"}])
       ELSE /\ Enter(Respond(r, 400, "false"))
            /\ lastValidate' = NoValidate
            /\ UNCHANGED storeVars
    /\ UNCHANGED <<now, users, drivers, envelopes>>

\* create settles: sendToken(driver, res), not awaited, or the catch block
verifyingEmailOtpCreateDone ==
  \E i \in DOMAIN reqs, ok \in BOOLEAN, out \in NullTokenOutcomes :
    LET r == reqs[i]
        fine == ok /\ canCreateDriver(drivers, r.env.phone)
        driver == newDriverRow(r.env)
    IN
    /\ r.kind = "verifyingEmailOtp" /\ r.pc = "create"
    /\ drivers' = IF fine THEN MapSet(drivers, driver.phone, driver) ELSE drivers
    /\ Settle(i,
         IF fine
         THEN callSendToken([r EXCEPT !.written = driver], driver, out)
         ELSE Respond([r EXCEPT !.extFail = TRUE], 400, "false"))
    /\ UNCHANGED <<now, users, envelopes, storeVars>>
    /\ lastValidate' = NoValidate

\* ------------------------------------------------------------------------
\* getAllRides (rider)
\* ------------------------------------------------------------------------
\* up to the await of prisma.rides.findMany
getAllRides ==
  /\ Enter([NewReq("getAllRides", "rider") EXCEPT
                             !.pc = "findMany", !.calls = {"findMany"}])
  /\ UNCHANGED <<now, users, drivers, envelopes, storeVars>>
  /\ lastValidate' = NoValidate

\* findMany settles: 201 with the rides, or the catch block's 500
getAllRidesFindManyDone ==
  \E i \in DOMAIN reqs, ok \in BOOLEAN :
    /\ reqs[i].kind = "getAllRides" /\ reqs[i].pc = "findMany"
    /\ Settle(i, IF ok THEN Respond(reqs[i], 201, "none")
                     ELSE Respond([reqs[i] EXCEPT !.extFail = TRUE], 500, "false"))
    /\ UNCHANGED <<now, users, drivers, envelopes, storeVars>>
    /\ lastValidate' = NoValidate

\* getLoggedInUserData of either controller: it has no await and answers 201
\* with req.user
getLoggedInUserData ==
  \E side \in Sides :
    /\ Enter(Respond(NewReq("getLoggedInUserData", side), 201, "true"))
    /\ UNCHANGED <<now, users, drivers, envelopes, storeVars>>
    /\ lastValidate' = NoValidate

\* ------------------------------------------------------------------------
\* Functions of no state
\* ------------------------------------------------------------------------
serverVars == <<now, otpCache, timers, users, drivers, reqs, received, limit,
                lastDone, envelopes, lastIssued, prevIssued, issueCount,
                okSince, lastValidate, process>>

\* the /ride-price handler: it has no await
PriceCalculation ==
  /\ calc.op = "price" /\ calc.pc = "start"
  /\ calc' = [calc EXCEPT !.pc = "done", !.res = PriceResponse(calc.body)]
  /\ UNCHANGED serverVars

\* one call of generateOtp, with the draw r
GenerateOtp ==
  /\ calc.op = "otp" /\ calc.pc = "start"
  /\ calc' = [calc EXCEPT !.pc = "done", !.otp = generateOtp(calc.r)]
  /\ UNCHANGED serverVars

\* ------------------------------------------------------------------------
\* Specification
\* ------------------------------------------------------------------------
Next ==
  \/ Tick
  \/ TimerFire
  \/ registerUser
  \/ registerUserMailDone
  \/ sendingOtpToPhone
  \/ sendingOtpToPhoneMailDone
  \/ verifyOtp
  \/ verifyOtpFindUniqueDone
  \/ verifyOtpCreateDone
  \/ verifyOtpSendTokenDone
  \/ verifyPhoneOtpForLogin
  \/ verifyPhoneOtpForLoginFindUniqueDone
  \/ ProcessExit
  \/ sendingOtpToEmail
  \/ sendingOtpToEmailMailDone
  \/ driverSendingOtpToEmail
  \/ driverSendingOtpToEmailMailDone
  \/ verifyingEmail
  \/ verifyingEmailFindUniqueDone
  \/ verifyingEmailUpdateDone
  \/ verifyingEmailSendTokenDone
  \/ verifyingEmailOtp
  \/ verifyingEmailOtpCreateDone
  \/ getAllRides
  \/ getAllRidesFindManyDone
  \/ getLoggedInUserData

Spec == Init /\ [][Next]_vars

\* the handlers that call storeOtp or isOtpValid, the clock and the timers
StoreNext ==
  \/ Tick
  \/ TimerFire
  \/ registerUser
  \/ registerUserMailDone
  \/ sendingOtpToPhone
  \/ sendingOtpToPhoneMailDone
  \/ verifyOtp
  \/ verifyOtpFindUniqueDone
  \/ verifyOtpCreateDone
  \/ verifyOtpSendTokenDone
  \/ verifyPhoneOtpForLogin
  \/ verifyPhoneOtpForLoginFindUniqueDone
  \/ ProcessExit
  \/ sendingOtpToEmail
  \/ sendingOtpToEmailMailDone
  \/ driverSendingOtpToEmail
  \/ driverSendingOtpToEmailMailDone
  \/ verifyingEmail
  \/ verifyingEmailFindUniqueDone
  \/ verifyingEmailUpdateDone
  \/ verifyingEmailSendTokenDone
  \/ verifyingEmailOtp
  \/ verifyingEmailOtpCreateDone

StoreSpec == StoreInit /\ [][StoreNext]_vars

\* the phone flow of one controller, served one after the other, with two
\* phone numbers in use
PhoneInit ==
  /\ Start
  /\ Scenario(StoreMaxRequests, StoreMaxPending, {"phone"}, {"n1"}, Phones,
              Horizon)

PhoneNext ==
  \/ Tick
  \/ TimerFire
  \/ registerUser
  \/ registerUserMailDone
  \/ sendingOtpToPhone
  \/ sendingOtpToPhoneMailDone
  \/ verifyOtp
  \/ verifyOtpFindUniqueDone
  \/ verifyOtpCreateDone
  \/ verifyOtpSendTokenDone
  \/ verifyPhoneOtpForLogin
  \/ verifyPhoneOtpForLoginFindUniqueDone
  \/ ProcessExit

PhoneSpec == PhoneInit /\ [][PhoneNext]_vars

\* the phone flow of one controller and one phone number, with requests in
\* progress at the same time
RaceInit ==
  /\ Start
  /\ Scenario(StoreMaxRequests, MaxPending, {"phone"}, {"n1"}, {"p1"},
              Horizon)

RaceSpec == RaceInit /\ [][PhoneNext]_vars

\* the phone flow of one controller, its last request received early enough
\* for the timer of every storeOtp call to come due before the clock stops;
\* the clock advances and a timer that is due runs its callback
LiveInit ==
  /\ Start
  /\ Scenario(MaxRequests, MaxPending, {"phone"}, {"n1"}, {"p1"},
              Horizon - DefaultTtl)

LiveSpec ==
  LiveInit /\ [][PhoneNext]_vars /\ WF_vars(Tick) /\ WF_vars(TimerFire)

\* both controllers serving their phone and email routes in one process, one
\* request after the other; the clients use one string, as phone number and
\* as email address
ShareInit ==
  /\ Start
  /\ limit = [requests |-> MaxRequests, pending |-> StoreMaxPending,
              side |-> "any", flow |-> "any", names |-> {"n1"},
              phones |-> Emails, arrivals |-> Horizon]
  /\ calc = NoCalc

ShareSpec == ShareInit /\ [][StoreNext]_vars

CalcNext ==
  \/ PriceCalculation
  \/ GenerateOtp

CalcSpec == CalcInit /\ [][CalcNext]_vars

FareSpec == FareInit /\ [][CalcNext]_vars

\* ------------------------------------------------------------------------
\* Properties of the code store (StoreSpec)
\* ------------------------------------------------------------------------
\* the isOtpValid call of the latest step found an entry whose expiry had
\* passed
ValidatedExpired ==
  /\ lastValidate.done
  /\ lastValidate.had
  /\ lastValidate.time > lastValidate.stored.expiry

\* C1: once Date.now() is greater than the expiry of the entry stored for an
\* identifier, isOtpValid returns false for every candidate code, the stored
\* code included, in the rider store and in the driver store, also while the
\* cleanup timer of the entry has not run yet.
C1_ExpiredNeverValidates ==
  /\ ValidatedExpired => ~lastValidate.ret
  /\ \A s \in Sides : \A x \in DOMAIN otpCache[s] : \A c \in Otps :
       now > otpCache[s][x].expiry =>
         ~isOtpValid(otpCache[s], x, c, now).ret

\* an expired entry, still stored because its timer is late, was checked
\* against its own code and refused
C1_Witness ==
  /\ ValidatedExpired
  /\ lastValidate.otp = lastValidate.stored.otp
  /\ \E t \in timers : /\ t.side = lastValidate.side
                       /\ t.identifier = lastValidate.identifier
                       /\ t.at = lastValidate.stored.expiry
  /\ ~lastValidate.ret

\* C2 (as claimed): isOtpValid called with the most recently issued code of
\* an identifier returns true at every time up to that code's expiry
\* (now <= issue time + ttl), however many codes were issued before and
\* whichever timers have fired.
C2_LatestCodeValidates ==
  ( /\ lastValidate.done
    /\ lastValidate.issues >= 1
    /\ lastValidate.otp = lastValidate.issued.otp
    /\ lastValidate.time <= lastValidate.issued.expiry )
  => lastValidate.ret

\* C2, the case of the stale timer alone: the same with the time strictly
\* before the expiry of the latest code, where its own timer cannot have run
C2_LatestCodeValidatesBeforeExpiry ==
  ( /\ lastValidate.done
    /\ lastValidate.issues >= 1
    /\ lastValidate.otp = lastValidate.issued.otp
    /\ lastValidate.time < lastValidate.issued.expiry )
  => lastValidate.ret

\* C3: the store holds at most one entry per identifier, the one written by
\* the latest storeOtp, so only the most recently issued code can validate:
\* after c1 and then a different c2 were issued, c1 is refused.
C3_LastWriteWins ==
  /\ \A s \in Sides : \A x \in DOMAIN otpCache[s] :
       otpCache[s][x] = lastIssued[s][x]
  /\ (lastValidate.done /\ lastValidate.ret) =>
       /\ lastValidate.issues >= 1
       /\ lastValidate.otp = lastValidate.issued.otp

\* c1 was issued, a different c2 was issued before c1 expired, and c1 was
\* then submitted before its own expiry, with c2's entry in the store, and
\* refused
C3_Witness ==
  /\ lastValidate.done
  /\ lastValidate.issues >= 2
  /\ lastValidate.prev # NoData
  /\ lastValidate.otp = lastValidate.prev.otp
  /\ lastValidate.otp # lastValidate.issued.otp
  /\ lastValidate.issued.expiry - DefaultTtl <= lastValidate.prev.expiry
  /\ lastValidate.time <= lastValidate.prev.expiry
  /\ lastValidate.had /\ lastValidate.stored = lastValidate.issued
  /\ ~lastValidate.ret

\* C4 (as claimed): a code is single-use, so isOtpValid never returns true
\* for an identifier for which it already returned true since the latest
\* storeOtp.
C4_SingleUse ==
  (lastValidate.done /\ lastValidate.ret) => ~lastValidate.okBefore

\* C4 (amended): a successful isOtpValid does not consume the code: it leaves
\* the store as it was, and a later call with the same code, made while the
\* entry is still stored and not expired, returns true again.
C4_SuccessKeepsEntry ==
  /\ (lastValidate.done /\ lastValidate.ret) => lastValidate.same
  /\ ( /\ lastValidate.done
       /\ lastValidate.okBefore
       /\ lastValidate.had
       /\ lastValidate.otp = lastValidate.stored.otp
       /\ lastValidate.time <= lastValidate.stored.expiry )
     => lastValidate.ret

\* a code that had validated before validated again
C4_Witness ==
  /\ lastValidate.done
  /\ lastValidate.okBefore
  /\ lastValidate.ret
  /\ lastValidate.same

\* C5 (as claimed): after a single storeOtp for an identifier, every
\* isOtpValid call with the issued code made before the expiry returns true
\* and leaves the entry as it was, the second such call like the first.
C5_ValidateDoesNotConsume ==
  ( /\ lastValidate.done
    /\ lastValidate.issues = 1
    /\ lastValidate.otp = lastValidate.issued.otp
    /\ lastValidate.time < lastValidate.issued.expiry )
  => /\ lastValidate.ret
     /\ lastValidate.had
     /\ lastValidate.stored = lastValidate.issued
     /\ lastValidate.same
     /\ otpCache[lastValidate.side][lastValidate.identifier]
          = lastValidate.issued

\* ------------------------------------------------------------------------
\* Properties of the verification flows (Spec)
\* ------------------------------------------------------------------------
PhoneVerifyKinds == {"verifyOtp", "verifyPhoneOtpForLogin"}
EmailVerifyKinds == {"verifyingEmail", "verifyingEmailOtp"}
VerifyKinds == PhoneVerifyKinds \cup EmailVerifyKinds

\* the identity record stored for a phone number by a controller
StoredRecord(side, phone) ==
  IF side = "rider" THEN findUserByPhone(users, phone)
  ELSE findDriverByPhone(drivers, phone)

\* the handler that returned in the latest step had its code accepted and
\* saw no persistence call fail
PhoneVerified ==
  /\ lastDone.kind \in PhoneVerifyKinds
  /\ lastDone.valid = "yes"
  /\ ~lastDone.extFail

EmailVerified ==
  /\ lastDone.kind \in EmailVerifyKinds
  /\ lastDone.valid = "yes"
  /\ ~lastDone.extFail

\* C6 (as claimed): every phone-verify request whose code validates, with no
\* persistence call failing, ends with a session token issued for that phone
\* number, whether the identity record existed or had to be created.
C6_PhoneVerifyIssuesToken ==
  PhoneVerified =>
    /\ lastDone.res.token
    /\ lastDone.res.session.phone = lastDone.phone

\* C6 (amended): a phone-verify request whose code validates, with no
\* persistence call failing, ends with a session token for the identity
\* record of that phone number when the lookup found one; a rider request
\* whose lookup found none creates the record and is answered 200 with the
\* new record and without a session token.
C6_TokenForFoundRecord ==
  PhoneVerified =>
    /\ lastDone.found # NoRec =>
         /\ lastDone.res.count = 1
         /\ lastDone.res.token
         /\ lastDone.res.session = lastDone.found
         /\ lastDone.found.phone = lastDone.phone
    /\ (lastDone.kind = "verifyOtp" /\ lastDone.found = NoRec) =>
         /\ lastDone.res.count = 1
         /\ lastDone.res.status = 200
         /\ ~lastDone.res.token
         /\ lastDone.written.phone = lastDone.phone
         /\ StoredRecord("rider", lastDone.phone) = lastDone.written

\* a rider whose record existed got a token for it
C6_Witness ==
  /\ PhoneVerified
  /\ lastDone.kind = "verifyOtp"
  /\ lastDone.found # NoRec
  /\ lastDone.res.token
  /\ lastDone.res.session.phone = lastDone.phone

\* C7 (as claimed): in both controllers a phone-verify handler whose code
\* validated looks the identity record up and creates it when absent, so the
\* record exists in persistence when the handler comes to issue the token,
\* and sendToken is never given a missing record.
C7_TokenOnlyForStoredRecord ==
  PhoneVerified =>
    /\ StoredRecord(lastDone.side, lastDone.phone) # NoRec
    /\ lastDone.tokenCalled =>
         /\ lastDone.tokenArg # NoRec
         /\ lastDone.tokenArg = StoredRecord(lastDone.side, lastDone.phone)

\* C8 (as claimed): every email-verify request with a valid envelope and a
\* code that validates, with no persistence call failing, creates or updates
\* the identity record with the envelope's profile fields and then issues a
\* session token for it, whatever the record's prior state.
C8_EmailVerifyWritesAndIssuesToken ==
  EmailVerified =>
    /\ lastDone.written # NoRec
    /\ lastDone.written.name = lastDone.env.name
    /\ lastDone.written.email = lastDone.env.email
    /\ lastDone.res.count = 1
    /\ lastDone.res.token
    /\ lastDone.res.session = lastDone.written

\* the requests in progress and the one that returned in the latest step
Requests == {reqs[i] : i \in DOMAIN reqs} \cup {lastDone}

\* C9: in the four verify handlers, a request for which isOtpValid returned
\* false is answered 400 at once, having made no persistence call and issued
\* no token; a request makes a persistence call or issues a token only after
\* isOtpValid returned true for it.
C9_RefusedCodeTouchesNothing ==
  /\ (lastDone.kind \in VerifyKinds /\ lastDone.valid = "no") =>
       /\ lastDone.res.count = 1
       /\ lastDone.res.status = 400
       /\ lastDone.res.success = "false"
       /\ ~lastDone.res.token
       /\ lastDone.calls = {}
       /\ ~lastDone.tokenCalled
       /\ lastDone.written = NoRec
  /\ (lastValidate.done /\ ~lastValidate.ret) =>
       (lastDone.kind \in VerifyKinds /\ lastDone.valid = "no")
  /\ \A r \in Requests :
       (r.kind \in VerifyKinds
          /\ (r.calls # {} \/ r.tokenCalled \/ r.res.token
                \/ r.written # NoRec)) => r.valid = "yes"

\* an email-verify request with a valid envelope and a wrong code for a live
\* entry was refused
C9_Witness ==
  /\ lastDone.kind = "verifyingEmail"
  /\ lastDone.valid = "no"
  /\ lastValidate.done /\ lastValidate.had
  /\ lastValidate.time <= lastValidate.stored.expiry
  /\ lastValidate.otp # lastValidate.stored.otp
  /\ lastDone.res.status = 400

\* C10: a request in which a sendMail or persistence call failed is answered,
\* in the step in which the call fails, with 400 or 500 and success:false,
\* without session token and without envelope.
C10_ExternalFailureIsAnError ==
  /\ lastDone.extFail =>
       /\ lastDone.res.count = 1
       /\ lastDone.res.status \in {400, 500}
       /\ lastDone.res.success = "false"
       /\ ~lastDone.res.token
       /\ lastDone.res.envelope = NoEnv
  /\ \A i \in DOMAIN reqs : ~reqs[i].extFail

\* sendMail failed in the driver's sendingOtpToEmail after the code was
\* stored and the envelope signed
C10_Witness ==
  /\ lastDone.extFail
  /\ lastDone.kind = "sendingOtpToEmail"
  /\ lastDone.side = "driver"
  /\ lastDone.env # NoEnv
  /\ lastDone.res.status = 400

\* ------------------------------------------------------------------------
\* Claims about the fare quote, checked under CalcSpec
\* ------------------------------------------------------------------------
Digits == {"0", "1", "2", "3", "4", "5", "6", "7", "8", "9"}

IsDigits(str) ==
  Len(str) >= 1 /\ \A i \in 1..Len(str) : SubSeq(str, i, i) \in Digits

\* digits, a point and two digits, after an optional sign
IsTwoDecimal(str) ==
  LET u == IF Len(str) > 0 /\ SubSeq(str, 1, 1) = "-"
           THEN SubSeq(str, 2, Len(str)) ELSE str
  IN /\ Len(u) >= 4
     /\ SubSeq(u, Len(u) - 2, Len(u) - 2) = "."
     /\ IsDigits(SubSeq(u, 1, Len(u) - 3))
     /\ IsDigits(SubSeq(u, Len(u) - 1, Len(u)))

\* a /ride-price request that has been answered
Priced == calc.op = "price" /\ calc.pc = "done"

\* C11 (as claimed): the /ride-price handler answers 400 with a message
\* exactly when pickup, destination or surgeMultiplier is missing from the
\* body; when all three are present, whatever the value of surgeMultiplier,
\* 0 included, it answers success:true with a price that is a 2-decimal
\* string.
C11_RejectsExactlyMissing ==
  Priced =>
    LET b == calc.body
        missing == ~b.pickup.present \/ ~b.destination.present
                     \/ ~b.surgeMultiplier.present
    IN /\ (calc.res.status = 400 /\ calc.res.message) <=> missing
       /\ ~missing => /\ calc.res.success = "true"
                      /\ IsTwoDecimal(calc.res.price)

\* the value of a string of digits
DigitVal(ch) == CHOOSE d \in 0..9 : DigitStr(d) = ch

RECURSIVE StrToNat(_)
StrToNat(str) ==
  IF Len(str) = 0 THEN 0
  ELSE 10 * StrToNat(SubSeq(str, 1, Len(str) - 1))
         + DigitVal(SubSeq(str, Len(str), Len(str)))

\* the value of a string of digits of any length
RECURSIVE StrToBig(_)
StrToBig(str) ==
  IF Len(str) = 0 THEN <<>>
  ELSE BigAdd(BigMul(StrToBig(SubSeq(str, 1, Len(str) - 1)), Big(10)),
              Big(DigitVal(SubSeq(str, Len(str), Len(str)))))

\* the number of cents an unsigned 2-decimal string names
PriceCents(str) ==
  100 * StrToNat(SubSeq(str, 1, Len(str) - 3))
    + StrToNat(SubSeq(str, Len(str) - 1, Len(str)))

\* a factor of the claimed product: an omitted factor counts as 1
FactorOr1(x) == IF x.present THEN x.v ELSE MulDen

\* the distance of the answered request
TripKm == distanceInKm(calc.body.pickup, calc.body.destination)

\* a request with a positive surge multiplier over a distance d >= 0
PricedPositive ==
  /\ Priced /\ calc.res.status = 200
  /\ calc.body.surgeMultiplier.v > 0
  /\ ~IsNaN(TripKm) /\ TripKm.s > 0 /\ ~IsInf(TripKm)

\* the distance of the answered request is km / d0, two natural numbers
TripKmDen == IF TripKm.e < 0 THEN BigShl(<<1>>, -TripKm.e) ELSE <<1>>
TripKmNum == IF TripKm.e < 0 THEN TripKm.m ELSE BigShl(TripKm.m, TripKm.e)

\* the claimed product (5 + 2 * d) * surge * traffic * weather * time of the
\* answered request, not rounded, is ProductNum / ProductDen
ProductNum ==
  BigMul(BigAdd(BigMul(TripKmDen, Big(5)), BigMul(TripKmNum, Big(2))),
         BigMul(BigMul(Big(calc.body.surgeMultiplier.v),
                       Big(FactorOr1(calc.body.trafficFactor))),
                BigMul(Big(FactorOr1(calc.body.weatherFactor)),
                       Big(FactorOr1(calc.body.timeFactor)))))
ProductDen == BigMul(TripKmDen, Big(MulDen * MulDen * MulDen * MulDen))

\* C12 (as claimed): for every distance d >= 0 and all positive multipliers
\* the price returned is
\* (5 + 2 * d) * surge * traffic * weather * time rounded to 2 decimal
\* places, each omitted factor counting as 1: the price is a 2-decimal
\* string whose value is at most half a cent away from that product; with
\* d = 0, surge = 1 and no factors it is "5.00".
C12_PriceIsRoundedFare ==
  PricedPositive =>
    LET b == calc.body
        price == calc.res.price
        \* the price and the product in units of 1 / (100 * ProductDen)
        cents == StrToBig(SubSeq(price, 1, Len(price) - 3)
                            \o SubSeq(price, Len(price) - 1, Len(price)))
        quoted == BigMul(cents, ProductDen)
        exact == BigMul(ProductNum, Big(100))
        gap == IF BigCmp(quoted, exact) >= 0 THEN BigSub(quoted, exact)
               ELSE BigSub(exact, quoted)
    IN /\ IsTwoDecimal(price)
       /\ SubSeq(price, 1, 1) # "-"
       /\ BigCmp(BigMul(gap, Big(2)), ProductDen) <= 0
       /\ (TripKmNum = <<>> /\ b.surgeMultiplier.v = MulDen
             /\ ~b.trafficFactor.present /\ ~b.weatherFactor.present
             /\ ~b.timeFactor.present)
            => price = "5.00"

\* the quote for the same trip with surge 1.0 and no factors, in cents
BaseQuoteCents ==
  PriceCents(calculateRidePrice(
    calc.body.pickup, calc.body.destination, MulDen,
    [trafficFactor |-> Absent, weatherFactor |-> Absent,
     timeFactor |-> Absent]))

\* the answered request has surge 2.0, trafficFactor 1.5 and no other factor
SurgeTwoTrafficOneAndHalf ==
  /\ PricedPositive
  /\ calc.body.surgeMultiplier.v = 2 * MulDen
  /\ calc.body.trafficFactor.present
  /\ 2 * calc.body.trafficFactor.v = 3 * MulDen
  /\ ~calc.body.weatherFactor.present /\ ~calc.body.timeFactor.present

\* C13 (as claimed): for every pickup and destination the 2-decimal quote
\* with surge 2.0 and trafficFactor 1.5 equals the 2-decimal quote with
\* surge 1.0 and no factors, times 2.0 times 1.5.
C13_QuotesCompose ==
  SurgeTwoTrafficOneAndHalf =>
    PriceCents(calc.res.price) = 3 * BaseQuoteCents

\* C13 (amended): the multipliers compose on the fare before it is rounded,
\* so a quote equals the base quote times its multipliers up to the rounding
\* of the two quotes: with k the product of the multipliers, the quote and k
\* times the base quote differ by at most (1 + k) / 2 cents, which is 0.02
\* for surge 2.0 and trafficFactor 1.5.
C13_QuotesComposeUpToRounding ==
  PricedPositive =>
    LET b == calc.body
        knum == b.surgeMultiplier.v * FactorOr1(b.trafficFactor)
                  * FactorOr1(b.weatherFactor) * FactorOr1(b.timeFactor)
        kden == MulDen * MulDen * MulDen * MulDen
        diff == PriceCents(calc.res.price) * kden - BaseQuoteCents * knum
    IN 2 * (IF diff < 0 THEN -diff ELSE diff) <= kden + knum

\* C13 witness: a quote with surge 2.0 and trafficFactor 1.5 that is not
\* three times the base quote.
C13_Witness ==
  /\ SurgeTwoTrafficOneAndHalf
  /\ PriceCents(calc.res.price) # 3 * BaseQuoteCents

\* C14 (as claimed): the Haversine distance is symmetric, and zero on
\* identical points: haversineDistance(a, b) == haversineDistance(b, a) and
\* haversineDistance(a, a) == 0 for the coordinates a and b of every priced
\* request.
C14_HaversineSymmetric ==
  (Priced /\ calc.res.status = 200) =>
    LET a == calc.body.pickup
        b == calc.body.destination
    IN /\ FEq(distanceInKm(a, b), distanceInKm(b, a))
       /\ FEq(distanceInKm(a, a), FZero)

\* ------------------------------------------------------------------------
\* Claims about generateOtp, checked under CalcSpec
\* ------------------------------------------------------------------------
\* a call of generateOtp that has returned
Generated == calc.op = "otp" /\ calc.pc = "done"

\* C15: for every draw r in [0, 1) the code generateOtp returns is the
\* decimal string of an integer in 1000..9999, that is 4 digits of which the
\* first is not 0; the smallest draw gives "1000" and the largest "9999", so
\* both ends of the range are produced.
C15_FourDigitCode ==
  Generated =>
    /\ Len(calc.otp) = 4
    /\ IsDigits(calc.otp)
    /\ SubSeq(calc.otp, 1, 1) # "0"
    /\ StrToNat(calc.otp) \in 1000..9999
    /\ calc.r = 0 => calc.otp = "1000"
    /\ calc.r = RandScale - 1 => calc.otp = "9999"

\* C15 witness: the largest draw has produced the upper end of the range.
C15_Witness ==
  Generated /\ calc.r = RandScale - 1 /\ calc.otp = "9999"

\* the smallest draw has produced the lower end of the range
C15_WitnessLow ==
  Generated /\ calc.r = 0 /\ calc.otp = "1000"

\* ------------------------------------------------------------------------
\* C16: a step in which isOtpValid is called changes the store only when an
\* entry for the identifier exists and the time of the call is past its
\* expiry: the call then deletes that entry, and only that entry, and returns
\* false. When there is no entry for the identifier the call returns false,
\* and when there is one that has not expired it returns true exactly when
\* the code given is the code stored; in both cases the store after the call
\* is the store before it. The store of the other controller is never
\* changed.
\* ------------------------------------------------------------------------
ValidateExpired ==
  /\ lastValidate.done
  /\ lastValidate.had
  /\ lastValidate.time > lastValidate.stored.expiry

C16_ValidateFrame ==
  [][ lastValidate'.done =>
        LET s == lastValidate'.side
            x == lastValidate'.identifier
        IN /\ \A o \in Sides \ {s} : otpCache'[o] = otpCache[o]
           /\ IF x \notin DOMAIN otpCache[s]
              THEN /\ ~lastValidate'.ret
                   /\ otpCache'[s] = otpCache[s]
              ELSE IF now > otpCache[s][x].expiry
              THEN /\ ~lastValidate'.ret
                   /\ DOMAIN otpCache'[s] = DOMAIN otpCache[s] \ {x}
                   /\ \A y \in DOMAIN otpCache'[s] :
                        otpCache'[s][y] = otpCache[s][y]
              ELSE /\ lastValidate'.ret
                        <=> lastValidate'.otp = otpCache[s][x].otp
                   /\ otpCache'[s] = otpCache[s] ]_vars

\* an expired entry was found and deleted while the entry of another
\* identifier stayed in the store
C16_Witness ==
  /\ ValidateExpired
  /\ ~lastValidate.ret
  /\ lastValidate.identifier \notin DOMAIN otpCache[lastValidate.side]
  /\ \E y \in DOMAIN otpCache[lastValidate.side] : y # lastValidate.identifier

\* a wrong code was refused with the entry, not expired, left in the store
C16_WitnessWrongCode ==
  /\ lastValidate.done
  /\ lastValidate.had
  /\ lastValidate.time <= lastValidate.stored.expiry
  /\ lastValidate.otp # lastValidate.stored.otp
  /\ ~lastValidate.ret
  /\ otpCache[lastValidate.side][lastValidate.identifier] = lastValidate.stored

\* ------------------------------------------------------------------------
\* C17: with requests in progress at the same time, an entry of the store is
\* at every moment the complete pair (code, expiry) written by one single
\* storeOtp call, the latest for its identifier, whose expiry is the time of
\* that call plus the ttl; and the entry an isOtpValid call reads is such a
\* pair, never the code of one call with the expiry of another.
\* ------------------------------------------------------------------------
C17_EntryIsOneIssue ==
  /\ \A s \in Sides : \A x \in DOMAIN otpCache[s] :
       /\ issueCount[s][x] >= 1
       /\ otpCache[s][x].otp = lastIssued[s][x].otp
       /\ otpCache[s][x].expiry = lastIssued[s][x].expiry
       /\ otpCache[s][x].expiry <= now + DefaultTtl
  /\ (lastValidate.done /\ lastValidate.had) =>
       /\ lastValidate.stored.otp = lastValidate.issued.otp
       /\ lastValidate.stored.expiry = lastValidate.issued.expiry
       /\ lastValidate.stored.expiry <= lastValidate.time + DefaultTtl

\* isOtpValid read the entry of the second of two storeOtp calls that wrote
\* different codes at different times, while a request that had called
\* storeOtp was still waiting for its mail to be sent
C17_Witness ==
  /\ lastValidate.done
  /\ lastValidate.had
  /\ lastValidate.issues >= 2
  /\ lastValidate.prev # NoData
  /\ lastValidate.prev.otp # lastValidate.issued.otp
  /\ lastValidate.prev.expiry # lastValidate.issued.expiry
  /\ lastValidate.stored = lastValidate.issued
  /\ \E i \in DOMAIN reqs : reqs[i].pc = "sendMail"

\* two requests that called storeOtp for one phone number with different
\* codes are both waiting for their mail
C17_WitnessTwoIssuing ==
  /\ Len(reqs) = 2
  /\ reqs[1].pc = "sendMail" /\ reqs[2].pc = "sendMail"
  /\ reqs[1].phone = reqs[2].phone
  /\ reqs[1].genOtp # reqs[2].genOtp
  /\ reqs[1].phone \in DOMAIN otpCache[limit.side]
  /\ otpCache[limit.side][reqs[1].phone] = lastIssued[limit.side][reqs[1].phone]

\* ------------------------------------------------------------------------
\* C18: every storeOtp call schedules one timer, due ttl after the call, for
\* its identifier; while an entry is stored the timer of the call that wrote
\* it has not fired yet; and, timers that are due being run, an entry that is
\* stored is eventually absent, so that no entry outlives the calls for its
\* identifier.
\* ------------------------------------------------------------------------
WriterTimerPending(s, x) ==
  \E t \in timers :
    /\ t.side = s
    /\ t.identifier = x
    /\ t.at = otpCache[s][x].expiry

C18_EntriesAreRemoved ==
  /\ [][ \A s \in Sides : \A x \in Idents :
           issueCount'[s][x] # issueCount[s][x] =>
             \E t \in timers' \ timers :
               /\ timers' = timers \cup {t}
               /\ t.side = s
               /\ t.identifier = x
               /\ t.at = now + DefaultTtl ]_vars
  /\ [](\A s \in Sides : \A x \in DOMAIN otpCache[s] : WriterTimerPending(s, x))
  /\ \A s \in Sides : \A x \in Idents :
       (x \in DOMAIN otpCache[s]) ~> (x \notin DOMAIN otpCache[s])
  /\ <>[](\A s \in Sides : otpCache[s] = EmptyMap)

\* two storeOtp calls were made for an identifier at different times, both
\* timers have fired and the entry is gone
C18_Witness ==
  \E s \in Sides : \E x \in Idents :
    /\ ~exited
    /\ issueCount[s][x] >= 2
    /\ prevIssued[s][x].expiry < lastIssued[s][x].expiry
    /\ now >= lastIssued[s][x].expiry
    /\ timers = {}
    /\ x \notin DOMAIN otpCache[s]

\* ------------------------------------------------------------------------
\* C19 (as claimed): a request whose handler has run to its end, on whatever
\* path, has been sent exactly one response. Stated for the paths on which
\* the handler sends the response itself; the paths that end in sendToken
\* leave the response to it.
\* ------------------------------------------------------------------------
C19_ExactlyOneResponse ==
  (lastDone # NoReq /\ ~lastDone.tokenCalled) => lastDone.res.count = 1

\* ------------------------------------------------------------------------
\* C20 (as claimed): an email-verify request whose code was accepted
\* submitted the code carried by its envelope, the one issued by the
\* email-otp-request that produced the envelope.
\* ------------------------------------------------------------------------
AcceptedWithEnvelopeCode(r) ==
  (r.kind \in EmailVerifyKinds /\ r.valid = "yes") => r.otp = r.env.otp

C20_CodeBoundToEnvelope ==
  /\ \A i \in DOMAIN reqs : AcceptedWithEnvelopeCode(reqs[i])
  /\ lastDone # NoReq => AcceptedWithEnvelopeCode(lastDone)

\* ------------------------------------------------------------------------
\* C21: each controller has its own store. While the process runs, a step
\* changes the store of a controller only if it receives a request of that
\* controller or runs one timer of that controller, so that issuing,
\* validating or expiring through the routes of one leaves the store of the
\* other as it was (the exit of the process, which is none of these, takes
\* both stores with it); and the entry
\* an isOtpValid call of a controller finds is the one written by the latest
\* storeOtp call of that same controller for the identifier, whichever of
\* its flows, phone or email, made the call: without such a call it finds
\* none and returns false.
\* ------------------------------------------------------------------------
\* the request received in the latest step
Arrived == IF lastDone # NoReq THEN lastDone ELSE reqs[Len(reqs)]

C21_SeparateStores ==
  /\ [][ ~exited' =>
           \A s \in Sides :
             otpCache'[s] # otpCache[s] =>
               \/ received' # received /\ Arrived'.side = s
               \/ \E t \in timers : timers' = timers \ {t} /\ t.side = s ]_vars
  /\ [](lastValidate.done =>
          /\ lastValidate.ret => lastValidate.had
          /\ lastValidate.had =>
               /\ lastValidate.issues >= 1
               /\ lastValidate.stored = lastValidate.issued)

\* a driver-side isOtpValid for X, with the code the rider store holds for X
\* and before its expiry, found no entry and returned false; the rider store
\* still holds its entry
C21_Witness ==
  /\ lastValidate.done
  /\ lastValidate.side = "driver"
  /\ ~lastValidate.had
  /\ ~lastValidate.ret
  /\ lastValidate.identifier \in DOMAIN otpCache["rider"]
  /\ otpCache["rider"][lastValidate.identifier].otp = lastValidate.otp
  /\ now <= otpCache["rider"][lastValidate.identifier].expiry
  /\ otpCache["driver"] = EmptyMap

\* the phone route of a controller accepted, for the string X, the code that
\* the email route of the same controller had issued for X
C21_WitnessSharedByFlows ==
  /\ lastValidate.done
  /\ lastValidate.ret
  /\ lastValidate.issues = 1
  /\ received > 0
  /\ FlowOf(Arrived.kind) = "phone"
  /\ \E e \in envelopes :
       /\ e.side = lastValidate.side
       /\ e.email = lastValidate.identifier
       /\ e.otp = lastValidate.otp

\* ------------------------------------------------------------------------
\* C22 (as claimed): of the rider verifyOtp requests for one phone number,
\* at most one calls prisma.user.create: no two of them, in progress or just
\* ended, have both made the call.
\* ------------------------------------------------------------------------
CalledCreate(r, phone) ==
  r.kind = "verifyOtp" /\ r.phone = phone /\ "create" \in r.calls

C22_AtMostOneCreate ==
  \A phone \in Phones :
    /\ \A i, j \in DOMAIN reqs :
         (CalledCreate(reqs[i], phone) /\ CalledCreate(reqs[j], phone)) => i = j
    /\ \A i \in DOMAIN reqs :
         ~(CalledCreate(lastDone, phone) /\ CalledCreate(reqs[i], phone))

====
